---- MODULE Spec2Model ----
(***************************************************************************)
(* Verification model of the volumetric path integrator                    *)
(* (src/src/pbrt/integrators/volpath.cpp) and of the layered scattering    *)
(* evaluator (src/src/pbrt/bxdfs.h).                                       *)
(*                                                                         *)
(* Floating-point values are modelled as exact extended rationals          *)
(* <<n, d>> with d >= 0 in lowest terms; <<0, 0>> is NaN and <<1, 0>> is   *)
(* +Inf, so that 0/0 and x/0 behave as they do in IEEE arithmetic.         *)
(* Spectral values are two-channel tuples of such values.                  *)
(***************************************************************************)
EXTENDS Integers, Sequences, FiniteSets, TLC

VARIABLES
    \* ---- VolPathIntegrator::Li ----
    pc,              \* position inside the bounce loop of Li
    depth,           \* int depth
    beta,            \* Spectrum beta (path throughput)
    L,               \* Spectrum L (accumulated radiance)
    etaScale,        \* Float etaScale
    specularBounce,  \* bool specularBounce
    ray,             \* RayDifferential ray: direction and medium
    hit,             \* what scene.Intersect found: nothing, an interface-only
                     \* boundary (no BSDF) or a scattering surface
    miValid,         \* mi.IsValid()
    bs,              \* the scattering sample drawn last (f, pdf, flags)
    rr,              \* locals of the last Russian-roulette test
    maxDepth,        \* VolPathIntegrator::maxDepth
    rrThreshold,     \* VolPathIntegrator::rrThreshold
    lastScatter,     \* history: kind of the last scattering event
    nScatter,        \* history: loop iterations that performed a scattering event
    skips,           \* history: interface-only boundaries crossed, up to MaxSkips
    lit,             \* history: nonzero radiance values met so far
    \* ---- LayeredBxDF: what PDF and Sample_f share ----
    config,          \* LayeredBxDFConfig config
    albedo,          \* SampledSpectrum albedo
    specular,        \* IsSpecular(top.Flags()), IsSpecular(bottom.Flags())
    woZ,             \* wo.z, as its sign
    wiZ,             \* wi.z, as its sign
    enteredTop,      \* bool enteredTop
    \* ---- LayeredBxDF::PDF ----
    pdfPc,           \* position inside PDF
    pdfSum,          \* Float pdfSum
    sIndex,          \* int s, the index of the sample loop
    pdfValue,        \* the value PDF returns
    \* ---- LayeredBxDF::Sample_f ----
    sfPc,            \* position inside Sample_f
    flipWi,          \* bool flipWi
    walkW,           \* w.z, as its sign
    walkF,           \* SampledSpectrum f
    walkPdf,         \* Float pdf
    walkZ,           \* Float z, in steps of thickness / Thickness
    walkDepth,       \* int depth of the walk
    drawn,           \* the interface or phase sample drawn by the last step
    roulette,        \* locals of the last Russian-roulette test of the walk
    ret,             \* the BSDFSample returned
    \* ---- LayeredBxDF: calls of f, PDF and Sample_f made by threads ----
    seed,            \* GetOptions().seed
    calls,           \* per thread: the call in progress and what it returned
    rng,             \* per call stack: RNG rng, a local of the call
    \* ---- one call of Sample_f, f or PDF of a scattering distribution ----
    bxCall,          \* the distribution, the arguments, the position
    bxRet,           \* what the call returned
    \* ---- a layered composite and the calls made on it ----
    composite,       \* its type, its children, the last call and its result
    \* ---- CreateVolPathIntegrator ----
    params,          \* const ParamSet &params: the "pixelbounds" array
    integrator,      \* the VolPathIntegrator made, with its pixelBounds
    \* ---- Error, Warning, ErrorExit ----
    raisers,         \* per thread: position in processError, errorString
    lastError,       \* static std::string lastError
    mutex,           \* static std::mutex mutex: the thread that holds it
    errLog,          \* what LOG(WARNING) and LOG(ERROR) have written
    exited,          \* exit(1) was called
    quiet,           \* PbrtOptions.quiet
    \* ---- worker threads that trace paths with Li ----
    workers,         \* per thread: position in Li, int depth, history
    stats,           \* the statistics counters and the samples added
    \* ---- bilerp and image textures ----
    texCall,         \* the creation call: its parameters and its result
    textures,        \* static std::map<TexInfo, ...> ImageTexture<T>::textures
    loads,           \* history: calls of MIPMap::CreateFromFile
    \* ---- LayeredBxDF::f ----
    lf               \* the arguments, the locals and the position of f

liVars == <<pc, depth, beta, L, etaScale, specularBounce, ray, hit, miValid,
            bs, rr, maxDepth, rrThreshold, lastScatter, nScatter,
            skips, lit>>

layerVars == <<config, albedo, specular, woZ, wiZ, enteredTop>>
pdfVars == <<pdfPc, pdfSum, sIndex, pdfValue>>
sfVars == <<sfPc, flipWi, walkW, walkF, walkPdf, walkZ, walkDepth, drawn,
            roulette, ret>>
layeredVars == <<layerVars, pdfVars, sfVars>>

callVars == <<seed, calls, rng>>
bxVars == <<bxCall, bxRet>>
compVars == <<composite>>
createVars == <<params, integrator>>
errVars == <<raisers, lastError, mutex, errLog, exited, quiet>>
workVars == <<workers, stats>>
texVars == <<texCall, textures, loads>>
fVars == <<lf>>
moreVars == <<workVars, texVars, fVars>>
extVars == <<callVars, bxVars, compVars, createVars, errVars, moreVars>>
\* what the steps of one part of the model leave unchanged
callRest == <<liVars, layeredVars, bxVars, compVars, createVars, errVars,
              moreVars>>
bxRest == <<liVars, layeredVars, callVars, compVars, createVars, errVars,
            moreVars>>
compRest == <<liVars, layeredVars, callVars, bxVars, createVars, errVars,
              moreVars>>
createRest == <<liVars, layeredVars, callVars, bxVars, compVars, moreVars>>
errRest == <<liVars, layeredVars, callVars, bxVars, compVars, createVars,
             moreVars>>
baseRest == <<liVars, layeredVars, callVars, bxVars, compVars, createVars>>

vars == <<liVars, layeredVars, extVars>>

(***************************************************************************)
(* Float arithmetic                                                        *)
(***************************************************************************)
\* Every operator below binds its operands once (x \in {a}), so that an
\* operand that is itself a long expression is evaluated a single time.
Abs(x) == IF x < 0 THEN -x ELSE x

RECURSIVE Gcd(_, _)
Gcd(a, b) ==
    IF b = 0 THEN a
    ELSE CHOOSE g \in {Gcd(y, x % y) : x \in {a}, y \in {b}} : TRUE

Sign(n) == IF n > 0 THEN 1 ELSE IF n < 0 THEN -1 ELSE 0

\* n/d in lowest terms with d > 0
Reduced(n, d) ==
    LET s == IF d < 0 THEN -1 ELSE 1
        g == Gcd(Abs(n), Abs(d))
    IN  <<(s * n) \div g, (s * d) \div g>>

\* the value n/d; d may be 0 (NaN for 0/0, signed infinity otherwise)
Float(n, d) ==
    CHOOSE r \in {IF y = 0 THEN <<Sign(x), 0>> ELSE Reduced(x, y) :
                  x \in {n}, y \in {d}} : TRUE

NaN == <<0, 0>>
Zero == <<0, 1>>
One == <<1, 1>>

IsNaN(a) == a = NaN
IsInf(a) == a[2] = 0 /\ a[1] # 0

FMul(a, b) ==
    CHOOSE r \in {Float(x[1] * y[1], x[2] * y[2]) : x \in {a}, y \in {b}} : TRUE
FAdd(a, b) ==
    CHOOSE r \in {IF IsInf(x) /\ IsInf(y)
                  THEN (IF x[1] = y[1] THEN x ELSE NaN)
                  ELSE Float(x[1] * y[2] + y[1] * x[2], x[2] * y[2]) :
                  x \in {a}, y \in {b}} : TRUE
FNeg(a) == CHOOSE r \in {<<-x[1], x[2]>> : x \in {a}} : TRUE
FSub(a, b) == FAdd(a, FNeg(b))
FDiv(a, b) ==
    CHOOSE r \in {Float(x[1] * y[2], x[2] * y[1]) : x \in {a}, y \in {b}} : TRUE
\* comparisons are false when an operand is NaN
FLess(a, b) ==
    \E x \in {a}, y \in {b} :
        /\ ~IsNaN(x) /\ ~IsNaN(y) /\ x # y
        /\ IF x[2] = 0 THEN x[1] < 0
           ELSE IF y[2] = 0 THEN y[1] > 0
           ELSE x[1] * y[2] < y[1] * x[2]
FLeq(a, b) ==
    \E x \in {a}, y \in {b} :
        ~IsNaN(x) /\ ~IsNaN(y) /\ (x = y \/ FLess(x, y))
\* std::max<Float>(a, b): (a < b) ? b : a
FMax(a, b) ==
    CHOOSE r \in {IF FLess(x, y) THEN y ELSE x : x \in {a}, y \in {b}} : TRUE

(***************************************************************************)
(* Spectrum: elementwise arithmetic, operator!, MaxComponentValue          *)
(***************************************************************************)
Channels == {1, 2}
Gray(x) == <<x, x>>
SMul(s, t) ==
    CHOOSE r \in {<<FMul(x[1], y[1]), FMul(x[2], y[2])>> :
                  x \in {s}, y \in {t}} : TRUE
SAdd(s, t) ==
    CHOOSE r \in {<<FAdd(x[1], y[1]), FAdd(x[2], y[2])>> :
                  x \in {s}, y \in {t}} : TRUE
SScale(s, a) ==
    CHOOSE r \in {<<FMul(x[1], y), FMul(x[2], y)>> :
                  x \in {s}, y \in {a}} : TRUE
SDivF(s, a) ==
    CHOOSE r \in {<<FDiv(x[1], y), FDiv(x[2], y)>> :
                  x \in {s}, y \in {a}} : TRUE
\* operator bool / operator!: a spectrum is black when every channel is 0
IsBlack(s) == \E x \in {s} : \A c \in Channels : x[c] = Zero
MaxComponentValue(s) == CHOOSE r \in {FMax(x[1], x[2]) : x \in {s}} : TRUE

(***************************************************************************)
(* Bounds of the model and the values the collaborators may return         *)
(***************************************************************************)
MaxDepthBound == 5     \* maxDepth ranges over 0..MaxDepthBound
MaxLit == 1            \* radiance queries of one path that return light
MaxNesting == 1        \* refractive boundaries entered, less those left
\* Interface-only boundaries may be crossed without limit; the first MaxSkips
\* of them may emit and lie behind an attenuating medium, the later ones are
\* non-emissive and reached with unit transmittance.
MaxSkips == 1

Dirs == {"d1", "d2"}
Half == Float(1, 2)
Tint == <<Float(1, 2), Zero>>
\* radiance values returned by Le and EstimateLd
Radiance == {Gray(Zero), Gray(One)}
\* Medium::Sample: the throughput weight and whether mi is a real vertex
MediumSamples ==
    { [w |-> Gray(Zero), valid |-> FALSE],
      [w |-> Gray(One),  valid |-> FALSE],
      [w |-> Gray(One),  valid |-> TRUE] }
\* BxDFType flag sets a sample may carry
LobeFlags ==
    { {"Reflection", "Diffuse"}, {"Reflection", "Specular"},
      {"Transmission", "Specular"}, {"Transmission", "Glossy"} }
\* BSDF::Sample_f results: f, pdf and AbsDot(wi, n)
SampleValues ==
    { [f |-> Gray(Zero), pdf |-> One,  cos |-> One],
      [f |-> Gray(One),  pdf |-> Zero, cos |-> One],
      [f |-> Gray(One),  pdf |-> One,  cos |-> One],
      [f |-> Tint,       pdf |-> One,  cos |-> One],
      [f |-> Gray(One),  pdf |-> One,  cos |-> Zero] }
\* Sample_f results at a subsurface exit point
ExitSampleValues ==
    { [f |-> Gray(Zero), pdf |-> One,  cos |-> One],
      [f |-> Gray(One),  pdf |-> Zero, cos |-> One],
      [f |-> Gray(One),  pdf |-> One,  cos |-> One] }
\* BSSRDF::Sample_S results: S and pdf
ProfileValues ==
    { [S |-> Gray(Zero), pdf |-> One],
      [S |-> Gray(One),  pdf |-> Zero],
      [S |-> Gray(One),  pdf |-> One] }
\* isect.bsdf->eta
EtaValues == {Float(7, 5)}
\* the values etaScale takes within MaxNesting boundaries
RECURSIVE EtaPower(_, _)
EtaPower(eta, n) ==
    IF n = 0 THEN One
    ELSE IF n > 0 THEN FMul(FMul(eta, eta), EtaPower(eta, n - 1))
    ELSE FDiv(EtaPower(eta, n + 1), FMul(eta, eta))
EtaScales == {EtaPower(eta, n) : eta \in EtaValues, n \in (-MaxNesting)..MaxNesting}
\* a radiance value the scene may return after n lit queries
Lit(rad, n) == IsBlack(rad) \/ n < MaxLit
Count(rad, n) == IF IsBlack(rad) THEN n ELSE n + 1
\* sampler.Get1D() values in [0, 1)
Uniforms == {Zero, Float(1, 25), Half}
\* rrThreshold: GetOneFloat("rrthreshold", 1.)
RRThresholds == {One}

NoSample == [kind |-> "none", f |-> Gray(Zero), pdf |-> Zero, flags |-> {},
             eta |-> One, entering |-> TRUE]
NoRR == [applied |-> FALSE, u |-> Zero]

(***************************************************************************)
(* VolPathIntegrator::Li: the tests and updates of the bounce loop         *)
(***************************************************************************)
\* for (depth = 0;; ++depth)
NextDepth(d) == d + 1

\* variant: the free bounce forgets its decrement
SkipDepthKept(d) == d
\* depth--: an interface-only boundary is a free bounce
SkipDepth(d) == d - 1

\* variant: the depth test is off by one
ReachedMaxDepthLate(d, md) == d > md
\* if (depth >= maxDepth) break;
ReachedMaxDepth(d, md) == d >= md

\* if (depth == 0 || specularBounce)
AddsEmission(d, spec) == d = 0 \/ spec

\* variant: the density of the sample is not tested
InvalidSampleIgnoresPdf(f, pdf) == IsBlack(f)
\* if (!f || pdf == 0) break;
InvalidSample(f, pdf) == IsBlack(f) \/ pdf = Zero

\* beta *= f * AbsDot(wi, n) / pdf
Throughput(b, f, cos, pdf) == SMul(b, SDivF(SScale(f, cos), pdf))

\* specularBounce = (flags & BSDF_SPECULAR) != 0
IsSpecularSample(flags) == "Specular" \in flags

\* variant: the two sides of the boundary are exchanged
EtaScaleUpdateSwapped(es, flags, eta, entering) ==
    IF "Specular" \in flags /\ "Transmission" \in flags
    THEN FMul(es, IF entering THEN FDiv(One, FMul(eta, eta))
                  ELSE FMul(eta, eta))
    ELSE es
\* etaScale *= (Dot(wo, isect.n) > 0) ? (eta * eta) : 1 / (eta * eta)
EtaScaleUpdate(es, flags, eta, entering) ==
    IF "Specular" \in flags /\ "Transmission" \in flags
    THEN FMul(es, IF entering THEN FMul(eta, eta)
                  ELSE FDiv(One, FMul(eta, eta)))
    ELSE es

\* if (isect.bssrdf && (flags & BSDF_TRANSMISSION))
UsesProfile(hasBssrdf, flags) == hasBssrdf /\ "Transmission" \in flags

\* Spectrum rrBeta = beta * etaScale
RRBeta(b, es) == SScale(b, es)
\* variant: roulette starts one bounce early
RRAppliesEarly(rrb, thr, d) == FLess(MaxComponentValue(rrb), thr) /\ d >= 3
\* if (rrBeta.MaxComponentValue() < rrThreshold && depth > 3)
RRApplies(rrb, thr, d) == FLess(MaxComponentValue(rrb), thr) /\ d > 3
\* Float q = std::max<Float>(.05, 1 - rrBeta.MaxComponentValue())
RRKillProb(rrb) == FMax(Float(5, 100), FSub(One, MaxComponentValue(rrb)))
\* if (sampler.Get1D() < q) break;
RRKills(u, q) == FLess(u, q)
\* variant: the survivor is divided by the kill probability
RRRescaleByKill(b, q) == SDivF(b, q)
\* beta /= 1 - q
RRRescale(b, q) == SDivF(b, FSub(One, q))

\* What isect.bsdf->Sample_f returns together with what Li reads next to it:
\* eta and the side of wo are read on a specular transmission only, the
\* profile on a transmission only, and all but f and pdf on a valid sample only
SurfaceSamples ==
    { s \in [sv : SampleValues, fl : LobeFlags, med : BOOLEAN,
             eta : EtaValues, entering : BOOLEAN, hasBssrdf : BOOLEAN] :
        /\ ({"Specular", "Transmission"} \subseteq s.fl) \/ s.entering
        /\ ("Transmission" \in s.fl) \/ ~s.hasBssrdf
        /\ InvalidSample(s.sv.f, s.sv.pdf) =>
              (s.fl = {"Reflection", "Diffuse"} /\ ~s.med /\ ~s.hasBssrdf) }
\* pi.bsdf->Sample_f at a subsurface exit point
ExitSamples ==
    { s \in [sv : ExitSampleValues, fl : LobeFlags, med : BOOLEAN] :
        InvalidSample(s.sv.f, s.sv.pdf) =>
            (s.fl = {"Reflection", "Diffuse"} /\ ~s.med) }

(***************************************************************************)
(* LayeredBxDF: configuration and the state of a call not in progress      *)
(***************************************************************************)
\* LayeredBxDFConfig: uint8_t maxDepth = 10, nSamples = 1, twoSided = true
DefaultConfig == [maxDepth |-> 10, nSamples |-> 1, twoSided |-> TRUE]

\* return {}: the default BSDFSample, which is invalid
NoRet == [kind |-> "none", f |-> Gray(Zero), pdf |-> Zero, wZ |-> 0,
          flags |-> {}]
NoDraw == [at |-> "none", valid |-> FALSE, refl |-> FALSE, wZ |-> 0]

LayerIdle ==
    /\ config = DefaultConfig
    /\ albedo = Gray(Zero)
    /\ specular = [top |-> FALSE, bottom |-> FALSE]
    /\ woZ = 1
    /\ wiZ = 1
    /\ enteredTop = TRUE
PDFIdle ==
    /\ pdfPc = "idle"
    /\ pdfSum = Zero
    /\ sIndex = 0
    /\ pdfValue = Zero
SampleIdle ==
    /\ sfPc = "idle"
    /\ flipWi = FALSE
    /\ walkW = 0
    /\ walkF = Gray(Zero)
    /\ walkPdf = Zero
    /\ walkZ = 0
    /\ walkDepth = 0
    /\ drawn = NoDraw
    /\ roulette = NoRR
    /\ ret = NoRet
LayeredIdle == LayerIdle /\ PDFIdle /\ SampleIdle

(***************************************************************************)
(* LayeredBxDF: calls made by threads, while no call is made               *)
(***************************************************************************)
\* the threads that evaluate the composite
Threads == {1, 2}
NoDir == <<0, 0>>
NoRNG == [key |-> <<0, NoDir, NoDir>>, n |-> 0]
NoResult == [val |-> <<NoDir, NoDir, <<>>>>, neg |-> FALSE, refl |-> FALSE]
IdleCall == [pc |-> "idle", op |-> "none",
             wo0 |-> NoDir, wi0 |-> NoDir, uc |-> NoDir,
             wo |-> NoDir, wi |-> NoDir, flip |-> FALSE, draws |-> <<>>,
             result |-> NoResult]
CallsIdle ==
    /\ seed = 0
    /\ calls = [t \in Threads |-> IdleCall]
    /\ rng = [t \in Threads |-> NoRNG]
\* no scattering distribution is being evaluated
NoBxCall == [pc |-> "idle", op |-> "none", variant |-> "none",
             specular |-> FALSE, R |-> Gray(Zero), T |-> Gray(Zero),
             layered |-> FALSE, woZ |-> 1, wiZ |-> 1, mask |-> {},
             mode |-> "Radiance"]
BxIdle ==
    /\ bxCall = NoBxCall
    /\ bxRet = [s |-> NoRet, f |-> Gray(Zero), fRev |-> Gray(Zero),
                pdf |-> Zero]
\* return {}: no sample, as far as its flags go
NoFlagged == [valid |-> FALSE, refl |-> FALSE, flags |-> {}]
\* no composite was made
CompIdle ==
    composite = [top |-> "none", bottom |-> "none", topSpecular |-> FALSE,
                 bottomSpecular |-> FALSE, bottomR |-> Gray(Zero),
                 albedo |-> Gray(Zero), thickness |-> Zero,
                 twoSided |-> FALSE,
                 pc |-> "idle", flags |-> {}, sample |-> NoFlagged]
\* CreateVolPathIntegrator was not called
CreateIdle ==
    /\ params = <<>>
    /\ integrator = [made |-> FALSE, pixelBounds |-> <<0, 0, 0, 0>>]
\* nothing was reported
ErrIdle ==
    /\ raisers = [t \in Threads |->
                    [pc |-> "idle", msg |-> "", type |-> "", n |-> 0]]
    /\ lastError = ""
    /\ mutex = 0
    /\ errLog = <<>>
    /\ exited = FALSE
    /\ quiet = FALSE
\* no worker traces a path
IdleWorker == [pc |-> "idle", depth |-> 0, skips |-> 0, ev |-> "none",
               paths |-> 0]
WorkIdle ==
    /\ workers = [t \in Threads |-> IdleWorker]
    /\ stats = [volumeInteractions |-> 0, surfaceInteractions |-> 0,
                pathLength |-> 0, film |-> 0]
\* no texture is being made, the caches are empty
NoTexCall == [kind |-> "none", T |-> "Float", mapping |-> "uv",
              key |-> <<"", "", "">>, n |-> 0,
              map |-> [type |-> "none", default |-> FALSE], mipmap |-> 0,
              hit |-> FALSE, made |-> FALSE]
TexIdle ==
    /\ texCall = NoTexCall
    /\ textures = {}
    /\ loads = <<>>
\* f is not being evaluated
NoF == [pc |-> "idle", s |-> 0, depth |-> 0, z |-> 0, w |-> 0,
        beta |-> Gray(Zero), f |-> Gray(Zero), exitTop |-> FALSE,
        exitZ |-> 0,
        result |-> Gray(Zero), iters |-> 0, lastAt |-> -1,
        rr |-> [applied |-> FALSE, u |-> Zero, q |-> Zero,
                before |-> Gray(Zero)]]
FIdle == lf = NoF
MoreIdle == WorkIdle /\ TexIdle /\ FIdle
ExtIdle ==
    CallsIdle /\ BxIdle /\ CompIdle /\ CreateIdle /\ ErrIdle /\ MoreIdle

\* the values maxDepth takes
MaxDepths == {0, 2, MaxDepthBound}

\* variant: the loop is continued where it should be left
ReturnContinues ==
    /\ pc' = "intersect"
    /\ beta' = Gray(Zero)
    /\ specularBounce' = FALSE
    /\ ray' = [d |-> "d1", medium |-> FALSE]
    /\ hit' = "none"
    /\ miValid' = FALSE
    /\ lastScatter' = "none"
    /\ skips' = 0
    /\ lit' = 0
    /\ UNCHANGED <<depth, etaScale, maxDepth, rrThreshold, nScatter>>

\* break out of the loop; ReportValue(pathLength, depth); return L.  The
\* locals of the loop other than depth and L end with the call.
Return ==
    /\ pc' = "done"
    /\ beta' = Gray(Zero)
    /\ specularBounce' = FALSE
    /\ ray' = [d |-> "d1", medium |-> FALSE]
    /\ hit' = "none"
    /\ miValid' = FALSE
    /\ lastScatter' = "none"
    /\ skips' = 0
    /\ lit' = 0
    /\ UNCHANGED <<depth, etaScale, maxDepth, rrThreshold, nScatter>>

InitLi ==
    /\ LayeredIdle
    /\ ExtIdle
    /\ pc = "intersect"
    /\ depth = 0
    /\ beta = Gray(One)
    /\ L = Gray(Zero)
    /\ etaScale = One
    /\ specularBounce = FALSE
    /\ ray \in [d : {"d1"}, medium : BOOLEAN]
    /\ hit = "none"
    /\ miValid = FALSE
    /\ bs = NoSample
    /\ rr = NoRR
    /\ maxDepth \in MaxDepths
    /\ rrThreshold \in RRThresholds
    /\ lastScatter = "none"
    /\ nScatter = 0
    /\ skips = 0
    /\ lit = 0

\* no call of Li in progress
LiIdle ==
    /\ pc = "idle"
    /\ depth = 0
    /\ beta = Gray(One)
    /\ L = Gray(Zero)
    /\ etaScale = One
    /\ specularBounce = FALSE
    /\ ray = [d |-> "d1", medium |-> FALSE]
    /\ hit = "none"
    /\ miValid = FALSE
    /\ bs = NoSample
    /\ rr = NoRR
    /\ maxDepth = 5
    /\ rrThreshold = One
    /\ lastScatter = "none"
    /\ nScatter = 0
    /\ skips = 0
    /\ lit = 0

\* lines 71-77: intersect the scene, sample the medium, stop on zero beta;
\* without a medium vertex, lines 96-106: emitted light, then stop when the
\* ray escaped or maxDepth was reached
Intersect ==
    /\ pc = "intersect"
    /\ UNCHANGED <<layeredVars, extVars>>
    /\ \E h \in {"none", "boundary", "surface"}, m \in MediumSamples,
          le \in Radiance :
         LET b == IF ray.medium THEN SMul(beta, m.w) ELSE beta
             v == ray.medium /\ m.valid
             sat == h = "boundary" /\ skips = MaxSkips
             emits == ~IsBlack(b) /\ ~v /\ AddsEmission(depth, specularBounce)
         IN  /\ ray.medium \/ m.w = Gray(One)
             /\ v => h = "none"
             /\ (sat \/ ~emits) => le = Gray(Zero)
             /\ Lit(le, lit)
             /\ L' = IF emits THEN SAdd(L, SMul(b, le)) ELSE L
             /\ IF \/ IsBlack(b)
                   \/ ~v /\ (h = "none" \/ ReachedMaxDepth(depth, maxDepth))
                THEN Return
                ELSE /\ pc' = IF v THEN "medium" ELSE "scatterfn"
                     /\ beta' = b
                     /\ miValid' = v
                     /\ hit' = h
                     /\ lit' = Count(le, lit)
                     /\ UNCHANGED <<depth, etaScale, specularBounce, ray,
                                    maxDepth, rrThreshold, lastScatter,
                                    nScatter, skips>>
    /\ rr' = NoRR
    /\ bs' = NoSample

\* lines 80-90: a real vertex inside the medium
MediumScatter ==
    /\ pc = "medium"
    /\ UNCHANGED <<layeredVars, extVars>>
    /\ IF ReachedMaxDepth(depth, maxDepth)
       THEN Return /\ L' = L
       ELSE /\ \E ld \in Radiance, wi \in Dirs \ {ray.d}, med \in BOOLEAN :
                 /\ Lit(ld, lit)
                 /\ lit' = Count(ld, lit)
                 /\ L' = SAdd(L, SMul(beta, ld))
                 /\ ray' = [d |-> wi, medium |-> med]
            /\ lastScatter' = "medium"
            /\ nScatter' = nScatter + 1
            /\ pc' = "rr"
            /\ UNCHANGED <<depth, beta, etaScale, specularBounce, hit, miValid,
                           maxDepth, rrThreshold, skips>>
    /\ UNCHANGED <<bs, rr>>

\* lines 109-114: an interface-only boundary: depth--, continue (++depth)
SkipBoundary ==
    /\ pc = "scatterfn"
    /\ UNCHANGED <<layeredVars, extVars>>
    /\ hit = "boundary"
    /\ \E med \in BOOLEAN : ray' = [d |-> ray.d, medium |-> med]
    /\ depth' = NextDepth(SkipDepth(depth))
    /\ skips' = IF skips < MaxSkips THEN skips + 1 ELSE skips
    /\ hit' = "none"
    /\ pc' = "intersect"
    /\ UNCHANGED <<beta, L, etaScale, specularBounce, miValid, bs, rr,
                   maxDepth, rrThreshold, lastScatter, nScatter, lit>>

\* lines 109, 118: the surface has a BSDF: next-event estimation
SurfaceLight ==
    /\ pc = "scatterfn"
    /\ UNCHANGED <<layeredVars, extVars>>
    /\ hit = "surface"
    /\ \E ld \in Radiance :
         /\ Lit(ld, lit)
         /\ lit' = Count(ld, lit)
         /\ L' = SAdd(L, SMul(beta, ld))
    /\ nScatter' = nScatter + 1
    /\ pc' = "sample"
    /\ UNCHANGED <<depth, beta, etaScale, specularBounce, ray, hit, miValid,
                   bs, rr, maxDepth, rrThreshold, lastScatter,
                   skips>>

\* lines 121-138: sample the BSDF for the new path direction
SampleBSDF ==
    /\ pc = "sample"
    /\ UNCHANGED <<layeredVars, extVars>>
    /\ \E s \in SurfaceSamples, wi \in Dirs \ {ray.d} :
         /\ bs' = [kind |-> "bsdf", f |-> s.sv.f, pdf |-> s.sv.pdf,
                   flags |-> s.fl, eta |-> s.eta, entering |-> s.entering]
         /\ IF InvalidSample(s.sv.f, s.sv.pdf)
            THEN Return
            ELSE /\ beta' = Throughput(beta, s.sv.f, s.sv.cos, s.sv.pdf)
                 /\ specularBounce' = IsSpecularSample(s.fl)
                 /\ etaScale' =
                        EtaScaleUpdate(etaScale, s.fl, s.eta, s.entering)
                 /\ etaScale' \in EtaScales
                 /\ ray' = [d |-> wi, medium |-> s.med]
                 /\ lastScatter' = IF "Specular" \in s.fl THEN "specular"
                                   ELSE "nonspecular"
                 /\ pc' = IF UsesProfile(s.hasBssrdf, s.fl) THEN "bssrdf"
                          ELSE "rr"
                 /\ UNCHANGED <<depth, hit, miValid, maxDepth, rrThreshold, nScatter, skips, lit>>
    /\ UNCHANGED <<L, rr>>

\* lines 143-148: importance sample the BSSRDF
SampleProfile ==
    /\ pc = "bssrdf"
    /\ UNCHANGED <<layeredVars, extVars>>
    /\ \E pv \in ProfileValues :
         /\ bs' = [kind |-> "bssrdf", f |-> pv.S, pdf |-> pv.pdf, flags |-> {},
                   eta |-> One, entering |-> TRUE]
         /\ IF InvalidSample(pv.S, pv.pdf)
            THEN Return
            ELSE /\ pc' = "exitlight"
                 /\ beta' = SMul(beta, SDivF(pv.S, pv.pdf))
                 /\ UNCHANGED <<depth, etaScale, specularBounce, ray, hit,
                                miValid, maxDepth, rrThreshold, lastScatter, nScatter, skips, lit>>
    /\ UNCHANGED <<L, rr>>

\* lines 152-153: direct lighting at the subsurface exit point
ExitLight ==
    /\ pc = "exitlight"
    /\ UNCHANGED <<layeredVars, extVars>>
    /\ \E ld \in Radiance :
         /\ Lit(ld, lit)
         /\ lit' = Count(ld, lit)
         /\ L' = SAdd(L, SMul(beta, ld))
    /\ pc' = "exitsample"
    /\ UNCHANGED <<depth, beta, etaScale, specularBounce, ray, hit, miValid,
                   bs, rr, maxDepth, rrThreshold, lastScatter,
                   nScatter, skips>>

\* lines 156-162: sample the BSDF at the subsurface exit point
ExitSample ==
    /\ pc = "exitsample"
    /\ UNCHANGED <<layeredVars, extVars>>
    /\ \E s \in ExitSamples, wi \in Dirs \ {ray.d} :
         /\ bs' = [kind |-> "exitbsdf", f |-> s.sv.f, pdf |-> s.sv.pdf,
                   flags |-> s.fl, eta |-> One, entering |-> TRUE]
         /\ IF InvalidSample(s.sv.f, s.sv.pdf)
            THEN Return
            ELSE /\ beta' = Throughput(beta, s.sv.f, s.sv.cos, s.sv.pdf)
                 /\ specularBounce' = IsSpecularSample(s.fl)
                 /\ ray' = [d |-> wi, medium |-> s.med]
                 /\ lastScatter' = IF "Specular" \in s.fl THEN "specular"
                                   ELSE "nonspecular"
                 /\ pc' = "rr"
                 /\ UNCHANGED <<depth, etaScale, hit, miValid, maxDepth,
                                rrThreshold, nScatter, skips, lit>>
    /\ UNCHANGED <<L, rr>>

\* lines 168-174 and the loop increment: Russian roulette
RussianRoulette ==
    /\ pc = "rr"
    /\ UNCHANGED <<layeredVars, extVars>>
    /\ LET rrb == RRBeta(beta, etaScale)
           q == RRKillProb(rrb)
       IN  \E u \in Uniforms :
           /\ rr' = IF RRApplies(rrb, rrThreshold, depth)
                    THEN [applied |-> TRUE, u |-> u] ELSE NoRR
           /\ RRApplies(rrb, rrThreshold, depth) \/ u = Zero
           /\ IF RRApplies(rrb, rrThreshold, depth) /\ RRKills(u, q)
              THEN Return
              ELSE /\ beta' = IF RRApplies(rrb, rrThreshold, depth)
                              THEN RRRescale(beta, q) ELSE beta
                   /\ depth' = NextDepth(depth)
                   /\ pc' = "intersect"
                   /\ hit' = "none"
                   /\ miValid' = FALSE
                   /\ UNCHANGED <<etaScale, specularBounce, ray, maxDepth,
                                  rrThreshold, lastScatter,
                                  nScatter, skips, lit>>
    /\ bs' = NoSample
    /\ L' = L

NextLi ==
    \/ Intersect
    \/ MediumScatter
    \/ SkipBoundary
    \/ SurfaceLight
    \/ SampleBSDF
    \/ SampleProfile
    \/ ExitLight
    \/ ExitSample
    \/ RussianRoulette

SpecLi == InitLi /\ [][NextLi]_vars
\* the loop of Li runs to completion once started: every enabled step is taken
FairSpecLi == SpecLi /\ WF_vars(NextLi)

(***************************************************************************)
(* Properties of VolPathIntegrator::Li                                     *)
(***************************************************************************)
SkipsBoundary == pc = "scatterfn" /\ hit = "boundary"

\* C1 as stated: for every sequence of outcomes Li eventually leaves its
\* bounce loop.  An unending run of interface-only boundaries refutes it.
C1Claim == <>(pc = "done")

\* C1: Li eventually leaves its bounce loop and returns L, provided the path
\* crosses only finitely many interface-only boundaries: either it reaches
\* the end of the loop, or it skips such boundaries again and again.
C1Thm == ([]<>SkipsBoundary) \/ <>(pc = "done")
\* a path that ran until the largest maxDepth stopped it
C1Wit == pc = "done" /\ depth = MaxDepthBound /\ nScatter = MaxDepthBound

\* C2: emitted radiance is added to L at a vertex only if the vertex is the
\* first of the path or the scattering event immediately before it was a
\* specular bounce; it is not added after a non-specular surface bounce or
\* after a medium scattering event.
C2Claim ==
    [][(pc = "intersect" /\ L' # L)
         => (depth = 0 \/ lastScatter = "specular")]_vars

\* C3: an invalid scattering sample (zero f or zero pdf) of the surface BSDF,
\* of the subsurface profile or of the BSDF at the subsurface exit point ends
\* the path in the same iteration, and L receives nothing after it.
C3Thm ==
    [][(pc \in {"sample", "bssrdf", "exitsample"}
          /\ (IsBlack(bs'.f) \/ bs'.pdf = Zero))
         => (pc' = "done" /\ L' = L)]_vars
\* a path ended by a zero-density sample at the subsurface exit point
C3Wit == pc = "done" /\ bs.kind = "exitbsdf" /\ bs.pdf = Zero

\* C4: maxDepth caps the path length: next-event estimation and the sampling
\* of a continuation only happen at a vertex with depth < maxDepth, a vertex
\* reached with depth >= maxDepth ends the path, and at most maxDepth
\* iterations of one path perform a scattering event.
C4Thm ==
    /\ pc \in {"scatterfn", "sample", "bssrdf", "exitlight", "exitsample",
               "rr"} => depth < maxDepth
    /\ nScatter <= maxDepth
    /\ depth <= maxDepth
\* a path of maxDepth = 2 that scattered twice and was stopped by the cap
C4Wit ==
    pc = "done" /\ maxDepth = 2 /\ nScatter = 2 /\ depth = 2 /\ bs = NoSample

\* C5: at an interface-only boundary the ray is re-spawned in its unchanged
\* direction; beta, etaScale, specularBounce and L are unchanged; no light and
\* no BSDF is sampled; Russian roulette is skipped; the next iteration starts
\* with the depth of this one.
C5Thm ==
    [][SkipsBoundary
         => /\ ray'.d = ray.d
            /\ beta' = beta
            /\ etaScale' = etaScale
            /\ specularBounce' = specularBounce
            /\ L' = L
            /\ lit' = lit
            /\ bs' = bs
            /\ rr' = rr
            /\ nScatter' = nScatter
            /\ depth' = depth
            /\ pc' = "intersect"]_vars
\* a second interface-only boundary, met after a specular bounce
C5Wit == SkipsBoundary /\ skips > 0 /\ depth > 0 /\ specularBounce

\* C6: after an iteration that scattered, Russian roulette is applied iff
\* depth > 3 and the largest channel of beta * etaScale is below rrThreshold;
\* then q = max(0.05, 1 - that channel), the path ends when the uniform
\* sample is below q and otherwise beta is multiplied by 1 / (1 - q); when it
\* is not applied, beta is unchanged and the path continues.
C6Thm ==
    [][pc = "rr"
         => LET m == MaxComponentValue(SScale(beta, etaScale))
                applies == depth > 3 /\ FLess(m, rrThreshold)
                q == FMax(Float(1, 20), FSub(One, m))
            IN  /\ rr'.applied = applies
                /\ (applies /\ FLess(rr'.u, q)) => pc' = "done"
                /\ (applies /\ ~FLess(rr'.u, q))
                     => (/\ pc' = "intersect"
                         /\ beta' = SScale(beta, FDiv(One, FSub(One, q))))
                /\ ~applies => (pc' = "intersect" /\ beta' = beta)]_vars
\* a path killed by a uniform sample of 0.04: below every q the roulette uses
C6Wit == pc = "done" /\ rr.applied /\ rr.u = Float(1, 25)

\* C7: Russian roulette is unbiased: the survival probability 1 - q times the
\* rescaled throughput of a surviving path equals the throughput before the
\* roulette, and a path killed with certainty (q = 1) carried no throughput.
C7Thm ==
    [][(pc = "rr" /\ rr'.applied)
         => LET q == RRKillProb(RRBeta(beta, etaScale))
            IN  /\ pc' = "intersect" => SScale(beta', FSub(One, q)) = beta
                /\ q = One => (IsBlack(beta) /\ pc' = "done")]_vars
\* a surviving path whose throughput the roulette raised
C7Wit ==
    /\ pc = "intersect" /\ rr.applied /\ ~IsBlack(beta)
    /\ MaxComponentValue(RRBeta(beta, etaScale)) = One

\* C8: etaScale starts at 1 and changes only on a surface bounce whose
\* sampled lobe is specular and transmissive: times eta^2 when the ray
\* enters, times 1 / eta^2 when it leaves; every other step keeps it.
C8Thm ==
    /\ etaScale = One
    /\ [][IF (pc = "sample" /\ pc' # "done"
              /\ {"Specular", "Transmission"} \subseteq bs'.flags)
          THEN etaScale' =
                   FMul(etaScale,
                        IF bs'.entering THEN FMul(bs'.eta, bs'.eta)
                        ELSE FDiv(One, FMul(bs'.eta, bs'.eta)))
          ELSE etaScale' = etaScale]_vars
\* leaving a boundary entered before restored etaScale to 1
C8Wit ==
    /\ pc = "rr" /\ bs.kind = "bsdf" /\ ~bs.entering
    /\ {"Specular", "Transmission"} \subseteq bs.flags
    /\ etaScale = One

(***************************************************************************)
(* LayeredBxDF: what PDF and Sample_f read of the two interfaces           *)
(***************************************************************************)
MaxSamples == 2        \* config.nSamples ranges over 0..MaxSamples
MaxWalk == 5           \* config.maxDepth ranges over 0..MaxWalk
Thickness == 2         \* the slab is Thickness steps of z deep

\* A BSDFSample of an interface or of the phase function, as the layered
\* code reads it: operator bool, the sign of wi.z, IsReflection(), f, pdf and
\* AbsCosTheta(wi); an invalid sample is the default one
LayerSamples ==
    { x \in [valid : BOOLEAN, wZ : {-1, 0, 1}, refl : BOOLEAN,
             f : {Gray(One), Gray(Float(1, 8))}, pdf : {One},
             cos : {One}] :
        ~x.valid => (x.wZ = 0 /\ ~x.refl /\ x.f = Gray(One)) }
\* Sample_f of a child (lines 45-54, 263-345, 585-619) under
\* BxDFReflTransFlags: a reflection lies in the hemisphere of wo, a
\* transmission in the other one, and a masked lobe is not sampled
InterfaceSamples(o, mask) ==
    { x \in LayerSamples :
        x.valid => /\ x.refl => ("Reflection" \in mask /\ x.wZ \in {o, 0})
                   /\ ~x.refl => ("Transmission" \in mask
                                   /\ x.wZ \in {-o, 0}) }
\* the samples PDF draws: it reads neither f nor pdf of them
ProbeSamples == { x \in LayerSamples : x.f = Gray(One) }
\* the densities top.PDF and bottom.PDF return
Densities == {Zero, Half, Float(2, 1)}

\* SameHemisphere(w, wp): w.z * wp.z > 0
SameHemisphere(a, b) == a * b > 0
\* Lerp(t, a, b): (1 - t) * a + t * b
Lerp(t, a, b) == FAdd(FMul(FSub(One, t), a), FMul(t, b))
\* 1 / (4 * Pi), with 355/113 for Pi
InvFourPi == Float(113, 1420)

\* variant: the directions are never flipped
FlipsNever(cfg, z) == FALSE
\* if (config.twoSided && wo.z < 0)
Flips(cfg, z) == cfg.twoSided /\ z < 0

(***************************************************************************)
(* LayeredBxDF::PDF                                                        *)
(***************************************************************************)
\* !wos || wos.wi.z == 0 || wos.IsReflection()
NoWayThrough(x) == ~x.valid \/ x.wZ = 0 \/ x.refl

\* pdfSum += config.nSamples * top.PDF(wo, wi, mode, Reflection)
EntranceTerm(n, p) == FMul(Float(n, 1), p)

\* return Lerp(.9, 1 / (4 * Pi), pdfSum / config.nSamples)
PDFMixture(sum, n) == Lerp(Float(9, 10), InvFourPi, FDiv(sum, Float(n, 1)))

InitPDF ==
    /\ LiIdle
    /\ ExtIdle
    /\ SampleIdle
    /\ config \in [maxDepth : {DefaultConfig.maxDepth},
                   nSamples : 0..MaxSamples, twoSided : BOOLEAN]
    /\ albedo = Gray(Zero)
    /\ specular \in [top : BOOLEAN, bottom : BOOLEAN]
    /\ woZ \in {-1, 1}
    /\ wiZ \in {-1, 1}
    /\ enteredTop = TRUE
    /\ pdfPc = "begin"
    /\ pdfSum = Zero
    /\ sIndex = 0
    /\ pdfValue = Zero

\* lines 1059-1081: flip the directions, reflection at the entrance layer
PDFBegin ==
    /\ pdfPc = "begin"
    /\ LET o == IF Flips(config, woZ) THEN -woZ ELSE woZ
           i == IF Flips(config, woZ) THEN -wiZ ELSE wiZ
       IN  /\ woZ' = o
           /\ wiZ' = i
           /\ enteredTop' = (o > 0)
           /\ \E p \in Densities :
                pdfSum' = IF SameHemisphere(o, i)
                          THEN FAdd(Zero, EntranceTerm(config.nSamples, p))
                          ELSE Zero
    /\ sIndex' = 0
    /\ pdfPc' = "loop"
    /\ UNCHANGED <<config, albedo, specular, pdfValue, liVars, sfVars, extVars>>

\* lines 1083-1112: one sample of the TRT term
PDFSampleTRT ==
    /\ pdfPc = "loop"
    /\ sIndex < config.nSamples
    /\ SameHemisphere(woZ, wiZ)
    /\ \E wos \in ProbeSamples, wis \in ProbeSamples,
          pt \in Densities, pr \in Densities :
         pdfSum' = IF NoWayThrough(wos) THEN FAdd(pdfSum, pt)
                   ELSE IF NoWayThrough(wis) THEN pdfSum
                   ELSE FAdd(pdfSum, pr)
    /\ sIndex' = sIndex + 1
    /\ UNCHANGED <<layerVars, pdfPc, pdfValue, liVars, sfVars, extVars>>

\* lines 1083-1084, 1113-1144: one sample of the TT term
PDFSampleTT ==
    /\ pdfPc = "loop"
    /\ sIndex < config.nSamples
    /\ ~SameHemisphere(woZ, wiZ)
    /\ \E wos \in ProbeSamples, wis \in ProbeSamples,
          pto \in Densities, pti \in Densities :
         LET toSpecular == IF enteredTop THEN specular.top
                           ELSE specular.bottom
             tiSpecular == IF enteredTop THEN specular.bottom
                           ELSE specular.top
         IN  pdfSum' =
                 IF NoWayThrough(wos) \/ NoWayThrough(wis) THEN pdfSum
                 ELSE IF toSpecular THEN FAdd(pdfSum, pti)
                 ELSE IF tiSpecular THEN FAdd(pdfSum, pto)
                 ELSE FAdd(pdfSum, FDiv(FAdd(pto, pti), Float(2, 1)))
    /\ sIndex' = sIndex + 1
    /\ UNCHANGED <<layerVars, pdfPc, pdfValue, liVars, sfVars, extVars>>

\* lines 1083, 1146-1147: the loop is over, return the mixture
PDFReturn ==
    /\ pdfPc = "loop"
    /\ ~(sIndex < config.nSamples)
    /\ pdfValue' = PDFMixture(pdfSum, config.nSamples)
    /\ pdfPc' = "done"
    /\ UNCHANGED <<layerVars, pdfSum, sIndex, liVars, sfVars, extVars>>

NextPDF ==
    \/ PDFBegin
    \/ PDFSampleTRT
    \/ PDFSampleTT
    \/ PDFReturn

SpecPDF == InitPDF /\ [][NextPDF]_vars

\* C9: PDF(wo, wi) is strictly positive for every pair of directions off the
\* horizon and every configuration: the mixture of the estimate (weight 0.9)
\* and of the isotropic density 1 / (4 * Pi) (weight 0.1) is at least
\* 0.1 / (4 * Pi).
C9Claim ==
    pdfPc = "done"
        => (FLess(Zero, pdfValue)
            /\ FLeq(FMul(Float(1, 10), InvFourPi), pdfValue))

(***************************************************************************)
(* LayeredBxDF::Sample_f                                                   *)
(***************************************************************************)
\* variant: the draws range over [0, 1], 1 included
WalkUniformsClosed == {Zero, Half, Float(24, 25), One}
\* r(): uniform values in [0, 1)
WalkUniforms == {Zero, Half, Float(24, 25)}
\* Tr(thickness, w): 1, exp(-thickness / |w.z|), or 0 where exp underflows
Transmittances == {One, Half, Zero}
\* albedo: none, or a scattering medium between the interfaces
Albedos == {Gray(Zero), Gray(Half)}
\* phase.Sample_p: operator bool, the sign of wi.z, p and pdf
PhaseSamples ==
    { x \in [valid : BOOLEAN, wZ : {-1, 0, 1}, p : {One}, pdf : {One}] :
        ~x.valid => x.wZ = 0 }

\* variant: the loop test admits depth == maxDepth
WalkGoesOnInclusive(d, cfg) == d <= cfg.maxDepth
\* for (int depth = 0; depth < config.maxDepth; ++depth)
WalkGoesOn(d, cfg) == d < cfg.maxDepth

\* Float rrBeta = f.MaxComponentValue() / pdf
WalkRRBeta(fv, p) == FDiv(MaxComponentValue(fv), p)
\* if (depth > 3 && rrBeta < 0.25)
WalkRRApplies(d, rrb) == d > 3 /\ FLess(rrb, Float(1, 4))
\* Float q = std::max<Float>(0, 1 - rrBeta)
WalkRRKillProb(rrb) == FMax(Zero, FSub(One, rrb))

\* Float zp = w.z > 0 ? (z + dz) : (z - dz)
StepTo(z, w, dz) == IF w > 0 THEN z + dz ELSE z - dz
\* if (0 < zp && zp < thickness)
InsideSlab(zp) == 0 < zp /\ zp < Thickness
\* Clamp(zp, 0, thickness)
ClampZ(zp) == IF zp < 0 THEN 0 ELSE IF zp > Thickness THEN Thickness ELSE zp
\* variant: the walk always advances to the bottom
OtherInterfaceBottom(z) == 0
\* z = (z == thickness) ? 0 : thickness
OtherInterface(z) == IF z = Thickness THEN 0 ELSE Thickness

\* variant: a sample along the interface is taken for a direction
InvalidLayerSampleAnyZ(x) == ~x.valid
\* if (!bs || bs.wi.z == 0) return {};  if (!ps || ps.wi.z == 0) return {};
InvalidLayerSample(x) == ~x.valid \/ x.wZ = 0

\* variant: the sampled direction is returned as it was drawn
FlipBackOmitted(flip, w) == w
\* if (flipWi) bs.wi = -bs.wi;  if (flipWi) w = -w;
FlipBack(flip, w) == IF flip THEN -w ELSE w

\* SameHemisphere(wo, w) ? GlossyReflection : GlossyTransmission
ExitFlags(o, w) ==
    IF SameHemisphere(o, w) THEN {"Glossy", "Reflection"}
    ELSE {"Glossy", "Transmission"}

\* return {}
ReturnInvalid ==
    /\ sfPc' = "done"
    /\ ret' = NoRet
    /\ walkW' = 0
    /\ walkF' = Gray(Zero)
    /\ walkPdf' = Zero
    /\ walkZ' = 0

InitSample ==
    /\ LiIdle
    /\ ExtIdle
    /\ PDFIdle
    /\ config \in [maxDepth : {0, 2, MaxWalk},
                   nSamples : {DefaultConfig.nSamples}, twoSided : BOOLEAN]
    /\ albedo \in Albedos
    /\ specular = [top |-> FALSE, bottom |-> FALSE]
    /\ woZ \in {-1, 1}
    /\ wiZ = 1
    /\ enteredTop = TRUE
    /\ sfPc = "entrance"
    /\ flipWi = FALSE
    /\ walkW = 0
    /\ walkF = Gray(Zero)
    /\ walkPdf = Zero
    /\ walkZ = 0
    /\ walkDepth = 0
    /\ drawn = NoDraw
    /\ roulette = NoRR
    /\ ret = NoRet

\* lines 936-964: flip wo, sample the entrance interface
SampleEntrance ==
    /\ sfPc = "entrance"
    /\ LET o == IF Flips(config, woZ) THEN -woZ ELSE woZ
       IN  /\ woZ' = o
           /\ flipWi' = Flips(config, woZ)
           /\ enteredTop' = (o > 0)
           /\ \E x \in InterfaceSamples(o, {"Reflection", "Transmission"}) :
                /\ drawn' = [at |-> "entrance", valid |-> x.valid,
                             refl |-> x.refl, wZ |-> x.wZ]
                /\ IF ~x.valid
                   THEN ReturnInvalid
                   ELSE IF x.refl
                   THEN /\ sfPc' = "done"
                        /\ ret' = [kind |-> "entrance", f |-> x.f,
                                   pdf |-> x.pdf,
                                   wZ |-> FlipBack(Flips(config, woZ), x.wZ),
                                   flags |-> {"Reflection"}]
                        /\ walkW' = 0
                        /\ walkF' = Gray(Zero)
                        /\ walkPdf' = Zero
                        /\ walkZ' = 0
                   ELSE /\ sfPc' = "walk"
                        /\ ret' = NoRet
                        /\ walkW' = x.wZ
                        /\ walkF' = SScale(x.f, x.cos)
                        /\ walkPdf' = x.pdf
                        /\ walkZ' = IF o > 0 THEN Thickness ELSE 0
    /\ walkDepth' = 0
    /\ roulette' = NoRR
    /\ UNCHANGED <<config, albedo, specular, wiZ, liVars, pdfVars, extVars>>

\* lines 967-978: the loop test, Russian roulette, the test of w.z
WalkBegin ==
    /\ sfPc = "walk"
    /\ drawn' = NoDraw
    /\ IF ~WalkGoesOn(walkDepth, config)
       THEN ReturnInvalid /\ roulette' = NoRR
       ELSE LET rrBeta == WalkRRBeta(walkF, walkPdf)
                applies == WalkRRApplies(walkDepth, rrBeta)
                q == WalkRRKillProb(rrBeta)
            IN  \E u \in WalkUniforms :
                  /\ applies \/ u = Zero
                  /\ roulette' = IF applies
                                 THEN [applied |-> TRUE, u |-> u] ELSE NoRR
                  /\ IF (applies /\ FLess(u, q)) \/ walkW = 0
                     THEN ReturnInvalid
                     ELSE /\ walkPdf' = IF applies
                                        THEN FMul(walkPdf, FSub(One, q))
                                        ELSE walkPdf
                          /\ sfPc' = IF ~IsBlack(albedo) THEN "medium"
                                     ELSE "advance"
                          /\ UNCHANGED <<walkW, walkF, walkZ, ret>>
    /\ UNCHANGED <<layerVars, flipWi, walkDepth, liVars, pdfVars, extVars>>

\* lines 980-1015: a scattering event in the medium between the interfaces
WalkMedium ==
    /\ sfPc = "medium"
    /\ \E dz \in 0..(Thickness + 1), ps \in PhaseSamples :
         LET zp == StepTo(walkZ, walkW, dz)
         IN  /\ InsideSlab(zp) \/ ps = [valid |-> FALSE, wZ |-> 0,
                                        p |-> One, pdf |-> One]
             /\ IF zp = walkZ
                THEN /\ ReturnInvalid
                     /\ drawn' = NoDraw
                     /\ UNCHANGED walkDepth
                ELSE IF InsideSlab(zp)
                THEN /\ drawn' = [at |-> "phase", valid |-> ps.valid,
                                  refl |-> FALSE, wZ |-> ps.wZ]
                     /\ IF InvalidLayerSample(ps)
                        THEN ReturnInvalid /\ UNCHANGED walkDepth
                        ELSE /\ walkF' = SScale(SMul(walkF, albedo), ps.p)
                             /\ walkPdf' = FMul(walkPdf, ps.pdf)
                             /\ walkW' = ps.wZ
                             /\ walkZ' = zp
                             /\ walkDepth' = walkDepth + 1
                             /\ sfPc' = "walk"
                             /\ ret' = NoRet
                ELSE /\ drawn' = NoDraw
                     /\ walkZ' = ClampZ(zp)
                     /\ sfPc' = "interface"
                     /\ UNCHANGED <<walkW, walkF, walkPdf, walkDepth, ret>>
    /\ UNCHANGED <<layerVars, flipWi, roulette, liVars, pdfVars, extVars>>

\* lines 1016-1021: no medium: advance to the other interface
WalkAdvance ==
    /\ sfPc = "advance"
    /\ walkZ' = OtherInterface(walkZ)
    /\ \E tr \in Transmittances : walkF' = SScale(walkF, tr)
    /\ sfPc' = "interface"
    /\ UNCHANGED <<layerVars, flipWi, walkW, walkPdf, walkDepth, drawn,
                   roulette, ret, liVars, pdfVars, extVars>>

\* lines 1022-1050: sample the interface at z; leave on a transmission
WalkInterface ==
    /\ sfPc = "interface"
    /\ \E x \in InterfaceSamples(-walkW, {"Reflection", "Transmission"}) :
         /\ drawn' = [at |-> "interface", valid |-> x.valid, refl |-> x.refl,
                      wZ |-> x.wZ]
         /\ IF InvalidLayerSample(x)
            THEN ReturnInvalid /\ UNCHANGED walkDepth
            ELSE IF ~x.refl
            THEN /\ sfPc' = "done"
                 /\ ret' = [kind |-> "exit", f |-> SMul(walkF, x.f),
                            pdf |-> FMul(walkPdf, x.pdf),
                            wZ |-> FlipBack(flipWi, x.wZ),
                            flags |-> ExitFlags(woZ, x.wZ)]
                 /\ walkW' = 0
                 /\ walkF' = Gray(Zero)
                 /\ walkPdf' = Zero
                 /\ walkZ' = 0
                 /\ UNCHANGED walkDepth
            ELSE /\ walkF' = SScale(SMul(walkF, x.f), x.cos)
                 /\ walkPdf' = FMul(walkPdf, x.pdf)
                 /\ walkW' = x.wZ
                 /\ walkDepth' = walkDepth + 1
                 /\ sfPc' = "walk"
                 /\ UNCHANGED <<walkZ, ret>>
    /\ UNCHANGED <<layerVars, flipWi, roulette, liVars, pdfVars, extVars>>

NextSample ==
    \/ SampleEntrance
    \/ WalkBegin
    \/ WalkMedium
    \/ WalkAdvance
    \/ WalkInterface

SpecSample == InitSample /\ [][NextSample]_vars

\* C10: Sample_f returns a valid sample only if the entrance interface
\* reflected directly or the walk left the slab through a transmission sample
\* at an interface within maxDepth iterations; it returns an invalid sample
\* whenever the entrance sample is invalid, an interface or phase-function
\* sample of the walk is invalid, the walk direction has zero z, Russian
\* roulette kills the walk, or maxDepth iterations pass without an exit.
C10Thm ==
    [][/\ (sfPc # "done" /\ sfPc' = "done" /\ ret'.kind # "none")
            => \/ (sfPc = "entrance" /\ drawn'.valid /\ drawn'.refl
                    /\ ret'.kind = "entrance")
               \/ (sfPc = "interface" /\ drawn'.valid /\ ~drawn'.refl
                    /\ drawn'.wZ # 0 /\ walkDepth < config.maxDepth
                    /\ ret'.kind = "exit")
       /\ ((\/ (sfPc = "entrance" /\ ~drawn'.valid)
            \/ (sfPc \in {"medium", "interface"} /\ drawn'.at # "none"
                  /\ (~drawn'.valid \/ drawn'.wZ = 0))
            \/ (sfPc = "walk" /\ walkW = 0)
            \/ (sfPc = "walk" /\ roulette'.applied
                  /\ FLess(roulette'.u,
                           FMax(Zero, FSub(One, FDiv(MaxComponentValue(walkF),
                                                     walkPdf)))))
            \/ (sfPc = "walk" /\ walkDepth >= config.maxDepth))
            => (sfPc' = "done" /\ ret' = NoRet))]_vars
\* a walk that left the slab in its last permitted iteration, after a
\* roulette it survived
C10Wit ==
    /\ sfPc = "done" /\ ret.kind = "exit"
    /\ walkDepth = MaxWalk - 1 /\ config.maxDepth = MaxWalk
    /\ roulette.applied

\* C11: a sample returned after the walk left the slab is flagged
\* GlossyReflection when the returned wi lies in the hemisphere of the wo the
\* caller passed and GlossyTransmission otherwise; when wo was flipped on
\* entry (two-sided, wo.z < 0) the returned wi is the negation of the
\* direction the walk drew, and it is that direction otherwise.
C11Thm ==
    [][/\ (sfPc = "entrance")
            => (/\ flipWi' = (config.twoSided /\ woZ < 0)
                /\ woZ' = (IF flipWi' THEN -woZ ELSE woZ))
       /\ (sfPc # "done" /\ sfPc' = "done" /\ ret'.kind = "exit")
            => (/\ ret'.wZ = (IF flipWi THEN -drawn'.wZ ELSE drawn'.wZ)
                /\ ret'.flags =
                     (IF (IF flipWi THEN -woZ ELSE woZ) * ret'.wZ > 0
                      THEN {"Glossy", "Reflection"}
                      ELSE {"Glossy", "Transmission"}))]_vars
\* a flipped call whose walk left through the interface it entered by
C11Wit ==
    /\ sfPc = "done" /\ ret.kind = "exit" /\ flipWi
    /\ ret.wZ < 0 /\ ret.flags = {"Glossy", "Reflection"}

(***************************************************************************)
(* LayeredBxDF: f, PDF and Sample_f as called by several threads           *)
(*                                                                         *)
(* The children, the hash and the generator are deterministic functions of *)
(* their arguments; they are left uninterpreted: a value computed by a     *)
(* call is the tuple of everything it was computed from, so two values are *)
(* equal exactly when they were computed from equal inputs.                *)
(***************************************************************************)
MaxDraws == 2          \* calls of r() made by one call

\* directions wo, as <<x, z>>, and directions wi
CallDirs == {<<x, z>> : x \in {-1, 1}, z \in {-1, 1}} \cup {<<1, 0>>}
ArgDirs == {<<1, 1>>, <<-1, -1>>}

\* wo = -wo;  wi = -wi
Negate(d) == <<-d[1], -d[2]>>
\* RNG rng(Hash(GetOptions().seed, wo), Hash(wi));
\* RNG rng(Hash(GetOptions().seed, wo), Hash(uc, u));
NewRNG(op, sd, o, i, uc) ==
    [key |-> IF op = "Sample_f" THEN <<sd, o, uc>> ELSE <<sd, o, i>>, n |-> 0]
\* rng.Uniform<Float>(): the value drawn from a generator in state g
Uniform(g) == <<g.key, g.n>>
\* variant: one generator serves every call
SharedStack(t) == 1
\* rng is a local of the call: one per thread that is inside a call
StackOf(t) == t
\* bs.IsReflection(), of the sample the entrance interface draws from uc
EntranceReflects(uc) == uc = Zero

InitCalls ==
    /\ LiIdle
    /\ PDFIdle /\ SampleIdle
    /\ config \in [maxDepth : {DefaultConfig.maxDepth},
                   nSamples : {DefaultConfig.nSamples}, twoSided : BOOLEAN]
    /\ albedo = Gray(Zero)
    /\ specular = [top |-> FALSE, bottom |-> FALSE]
    /\ woZ = 1
    /\ wiZ = 1
    /\ enteredTop = TRUE
    /\ seed \in {0, 1}
    /\ calls = [t \in Threads |-> IdleCall]
    /\ rng = [t \in Threads |-> NoRNG]
    /\ BxIdle /\ CompIdle /\ CreateIdle /\ ErrIdle /\ MoreIdle

\* a thread calls f(wo, wi, mode), PDF(wo, wi, mode) or Sample_f(wo, uc, u, mode)
BeginCall(t) ==
    /\ calls[t].pc \in {"idle", "done"}
    /\ \E op \in {"f", "PDF", "Sample_f"}, o \in CallDirs, i \in ArgDirs,
          uc \in {Zero, Half} :
         /\ op = "Sample_f" => i = <<1, 1>>
         /\ op # "Sample_f" => uc = Zero
         /\ calls' = [calls EXCEPT ![t] =
                        [pc |-> "entry", op |-> op,
                         wo0 |-> o, wi0 |-> i, uc |-> uc,
                         wo |-> o, wi |-> i, flip |-> FALSE,
                         draws |-> <<>>, result |-> NoResult]]
    /\ UNCHANGED <<seed, rng, callRest>>

\* lines 757-761, 936-940, 1059-1063: flip the directions; lines 783, 956,
\* 1066: construct the generator; lines 946-952: Sample_f returns the
\* entrance sample when it is a reflection
EnterCall(t) ==
    /\ calls[t].pc = "entry"
    /\ LET c == calls[t]
           fl == Flips(config, c.wo[2])
           o == IF fl THEN Negate(c.wo) ELSE c.wo
           i == IF fl /\ c.op # "Sample_f" THEN Negate(c.wi) ELSE c.wi
       IN  IF c.op = "Sample_f" /\ EntranceReflects(c.uc)
           THEN /\ calls' = [calls EXCEPT ![t] =
                    [c EXCEPT !.pc = "done", !.wo = o, !.wi = i, !.flip = fl,
                              !.result = [val |-> <<o, c.uc, <<>>>>,
                                          neg |-> fl, refl |-> TRUE]]]
                /\ UNCHANGED rng
           ELSE /\ calls' = [calls EXCEPT ![t] =
                    [c EXCEPT !.pc = "walk", !.wo = o, !.wi = i, !.flip = fl]]
                /\ rng' = [rng EXCEPT ![StackOf(t)] =
                             NewRNG(c.op, seed, o, i, c.uc)]
    /\ UNCHANGED <<seed, callRest>>

\* lines 784-786, 957-959, 1067-1069: r()
DrawCall(t) ==
    /\ calls[t].pc = "walk"
    /\ Len(calls[t].draws) < MaxDraws
    /\ calls' = [calls EXCEPT ![t].draws = Append(@, Uniform(rng[StackOf(t)]))]
    /\ rng' = [rng EXCEPT ![StackOf(t)].n = @ + 1]
    /\ UNCHANGED <<seed, callRest>>

\* lines 928, 1045, 1147: the value returned is computed from the flipped
\* directions and the values drawn; Sample_f flips the direction back; the
\* generator goes out of scope
ReturnCall(t) ==
    /\ calls[t].pc = "walk"
    /\ Len(calls[t].draws) = MaxDraws
    /\ LET c == calls[t]
           second == IF c.op = "Sample_f" THEN c.uc ELSE c.wi
       IN  calls' = [calls EXCEPT ![t] =
              [c EXCEPT !.pc = "done",
                        !.result = [val |-> <<c.wo, second, c.draws>>,
                                    neg |-> (c.op = "Sample_f" /\ c.flip),
                                    refl |-> FALSE]]]
    /\ rng' = [rng EXCEPT ![StackOf(t)] = NoRNG]
    /\ UNCHANGED <<seed, callRest>>

NextCalls ==
    \E t \in Threads :
        \/ BeginCall(t)
        \/ EnterCall(t)
        \/ DrawCall(t)
        \/ ReturnCall(t)

SpecCalls == InitCalls /\ [][NextCalls]_vars

\* C12: with twoSided set and wo.z # 0, f(wo, wi) = f(-wo, -wi) and
\* PDF(wo, wi) = PDF(-wo, -wi), and Sample_f(wo, uc, u) returns the same f,
\* pdf and flags as Sample_f(-wo, uc, u) and the negation of its direction.
C12Thm ==
    config.twoSided =>
      \A a \in Threads, b \in Threads :
        (/\ calls[a].pc = "done" /\ calls[b].pc = "done"
         /\ calls[a].op = calls[b].op
         /\ calls[a].wo0[2] # 0
         /\ calls[b].wo0 = Negate(calls[a].wo0)
         /\ calls[a].op # "Sample_f" => calls[b].wi0 = Negate(calls[a].wi0)
         /\ calls[a].op = "Sample_f" => calls[b].uc = calls[a].uc)
        => (/\ calls[a].result.val = calls[b].result.val
            /\ calls[a].result.refl = calls[b].result.refl
            /\ calls[a].op = "Sample_f"
                 => calls[a].result.neg # calls[b].result.neg)
\* two finished walks of Sample_f for wo below the surface and for -wo
C12Wit ==
    /\ config.twoSided /\ calls[1].pc = "done" /\ calls[2].pc = "done"
    /\ calls[2].op = "Sample_f"
    /\ calls[1].op = "Sample_f" /\ calls[1].wo0[2] < 0
    /\ calls[2].wo0 = Negate(calls[1].wo0) /\ calls[2].uc = calls[1].uc
    /\ ~calls[1].result.refl /\ Len(calls[1].result.val[3]) = MaxDraws
\* C13: two calls of the same operation with the same arguments, made by
\* any threads in any order after any other calls, return the same result.
C13Thm ==
    \A a \in Threads, b \in Threads :
        (/\ calls[a].pc = "done" /\ calls[b].pc = "done"
         /\ calls[a].op = calls[b].op
         /\ calls[a].wo0 = calls[b].wo0
         /\ calls[a].wi0 = calls[b].wi0
         /\ calls[a].uc = calls[b].uc)
        => calls[a].result = calls[b].result
\* two threads returned from f with the same arguments, each after its walk
C13Wit ==
    /\ calls[1].pc = "done" /\ calls[2].pc = "done"
    /\ calls[1].op = "f" /\ calls[2].op = "f"
    /\ calls[1].wo0 = calls[2].wo0 /\ calls[1].wi0 = calls[2].wi0
    /\ Len(calls[1].result.val[3]) = MaxDraws
    /\ Len(calls[2].result.val[3]) = MaxDraws

(***************************************************************************)
(* The scattering distributions: Sample_f, f and PDF of IdealDiffuseBxDF,  *)
(* DiffuseBxDF, DielectricInterfaceBxDF, ThinDielectricBxDF, ConductorBxDF *)
(* and of a LayeredBxDF entered through one of them.                       *)
(*                                                                         *)
(* A direction is its z component: 1 and -1 are the directions along the   *)
(* shading normal, 0 is a direction in the surface.  The microfacet terms  *)
(* D(wh) * G(wo, wi) are 1, eta is 2, and DiffuseBxDF has B = 0.           *)
(***************************************************************************)
\* 1 / Pi, with 355/113 for Pi
InvPi == Float(113, 355)
Eta == Float(2, 1)
\* FrDielectric and FrConductor: ((eta - 1) / (eta + 1))^2 along the normal,
\* 1 along the surface
Fresnel(z) == IF z = 0 THEN One ELSE Float(1, 9)
\* BSDFSample(f, wi, pdf, flags)
BSDFSample(fv, w, p, fl) ==
    [kind |-> "sample", f |-> fv, pdf |-> p, wZ |-> w, flags |-> fl]
\* operator bool of BSDFSample: a valid sample has f nonzero and pdf > 0
BSDFValid(x) ==
    x.kind \notin {"none", "abort"} /\ ~IsBlack(x.f) /\ x.pdf # Zero
\* if (!(sampleFlags & BxDFReflTransFlags::Reflection)) pr = 0;  and pt alike
Masked(p, lobe, mask) == IF lobe \in mask THEN p ELSE Zero
\* AbsCosTheta(w)
AbsCosTheta(w) == Float(Abs(w), 1)

\* f(wo, wi, mode) of the variants
FOf(b, o, i) ==
    CASE b.variant = "idealdiffuse" ->
           IF ~SameHemisphere(o, i) THEN Gray(Zero) ELSE SScale(b.R, InvPi)
      [] b.variant = "diffuse" ->
           IF SameHemisphere(o, i) THEN SScale(b.R, InvPi)
           ELSE SScale(b.T, InvPi)
      [] b.variant = "dielectric" ->
           IF b.specular THEN Gray(Zero)
           ELSE IF SameHemisphere(o, i)
           THEN Gray(FDiv(Fresnel(i),
                          FMul(Float(4, 1),
                               FMul(AbsCosTheta(i), AbsCosTheta(o)))))
           ELSE IF i = 0 \/ o = 0 THEN Gray(Zero)
           ELSE LET etap == IF o > 0 THEN Eta ELSE FDiv(One, Eta)
                    \* wh = FaceForward(Normalize(wo + wi * etap), (0, 0, 1))
                    \* is the normal: Dot(wo, wh) = wo.z, Dot(wi, wh) = wi.z
                    sqrtDenom == FAdd(Float(o, 1), FMul(etap, Float(i, 1)))
                    factor == IF b.mode = "Radiance"
                              THEN FMul(FDiv(One, etap), FDiv(One, etap))
                              ELSE One
                IN  Gray(FDiv(FMul(FSub(One, Fresnel(o)), factor),
                              FMul(sqrtDenom, sqrtDenom)))
      [] b.variant = "thin" -> Gray(Zero)
      [] b.variant = "conductor" ->
           IF ~SameHemisphere(o, i) \/ b.specular THEN Gray(Zero)
           ELSE Gray(FDiv(Fresnel(i),
                          FMul(Float(4, 1),
                               FMul(AbsCosTheta(i), AbsCosTheta(o)))))

\* PDF(wo, wi, mode, sampleFlags) of the variants; the density of a glossy
\* lobe is 1/2
PDFOf(b, o, i, mask) ==
    LET pr == Masked(MaxComponentValue(b.R), "Reflection", mask)
        pt == Masked(MaxComponentValue(b.T), "Transmission", mask)
        lobe == IF SameHemisphere(o, i) THEN "Reflection" ELSE "Transmission"
    IN  CASE b.variant = "idealdiffuse" ->
               IF "Reflection" \in mask /\ SameHemisphere(o, i)
               THEN FMul(AbsCosTheta(i), InvPi) ELSE Zero
          [] b.variant = "diffuse" ->
               IF pr = Zero /\ pt = Zero THEN Zero
               ELSE FMul(FDiv(IF SameHemisphere(o, i) THEN pr ELSE pt,
                              FAdd(pr, pt)),
                         FMul(AbsCosTheta(i), InvPi))
          [] b.variant = "dielectric" ->
               IF b.specular \/ lobe \notin mask \/ o = 0 \/ i = 0 THEN Zero
               ELSE Half
          [] b.variant = "thin" -> Zero
          [] b.variant = "conductor" ->
               IF "Reflection" \notin mask \/ ~SameHemisphere(o, i)
                  \/ b.specular
               THEN Zero ELSE Half

\* IdealDiffuseBxDF::Sample_f; d.cosZ is the z of SampleCosineHemisphere(u)
IdealDiffuseSample(b, o, mask, d) ==
    IF "Reflection" \notin mask THEN NoRet
    ELSE LET i == IF o < 0 THEN -d.cosZ ELSE d.cosZ
         IN  BSDFSample(FOf(b, o, i), i, FMul(AbsCosTheta(i), InvPi),
                        {"Diffuse", "Reflection"})

\* DiffuseBxDF::Sample_f; SampleDiscrete({pr, pt}, uc, &cpdf) picks the first
\* lobe when uc < pr / (pr + pt)
DiffuseSample(b, o, mask, d) ==
    LET pr == Masked(MaxComponentValue(b.R), "Reflection", mask)
        pt == Masked(MaxComponentValue(b.T), "Transmission", mask)
    IN  IF pr = Zero /\ pt = Zero THEN NoRet
        ELSE IF FLess(d.uc, FDiv(pr, FAdd(pr, pt)))
        THEN LET i == IF o < 0 THEN -d.cosZ ELSE d.cosZ
             IN  BSDFSample(FOf(b, o, i), i,
                            FMul(FMul(AbsCosTheta(i), InvPi),
                                 FDiv(pr, FAdd(pr, pt))),
                            {"Diffuse", "Reflection"})
        ELSE LET i == IF o > 0 THEN -d.cosZ ELSE d.cosZ
             IN  BSDFSample(FOf(b, o, i), i,
                            FMul(FMul(AbsCosTheta(i), InvPi),
                                 FDiv(pt, FAdd(pr, pt))),
                            {"Diffuse", "Transmission"})

\* DielectricInterfaceBxDF::Sample_f; ~d.ok is total internal reflection or
\* a microfacet normal the sampled direction cannot use
DielectricSample(b, o, mask, d) ==
    IF o = 0 THEN NoRet
    ELSE LET R == Fresnel(o)
             pr == Masked(R, "Reflection", mask)
             pt == Masked(FSub(One, R), "Transmission", mask)
             etap == IF o > 0 THEN Eta ELSE FDiv(One, Eta)
             ft == FDiv(FSub(One, R), AbsCosTheta(-o))
         IN  IF pr = Zero /\ pt = Zero THEN NoRet
             ELSE IF FLess(d.uc, FDiv(pr, FAdd(pr, pt)))
             THEN IF b.specular
                  THEN BSDFSample(Gray(FDiv(R, AbsCosTheta(o))), o,
                                  FDiv(pr, FAdd(pr, pt)),
                                  {"Specular", "Reflection"})
                  ELSE IF ~d.ok THEN NoRet
                  ELSE BSDFSample(Gray(Half), o, Half,
                                  {"Glossy", "Reflection"})
             ELSE IF ~d.ok THEN NoRet
             ELSE IF b.specular
             THEN BSDFSample(Gray(IF b.mode = "Radiance"
                                  THEN FDiv(ft, FMul(etap, etap)) ELSE ft),
                             -o, FDiv(pt, FAdd(pr, pt)),
                             {"Specular", "Transmission"})
             ELSE BSDFSample(Gray(Half), -o, Half,
                             {"Glossy", "Transmission"})

\* ThinDielectricBxDF::Sample_f
ThinDielectricSample(b, o, mask, d) ==
    LET R0 == Fresnel(o)
        T0 == FSub(One, R0)
        R == IF FLess(R0, One)
             THEN FAdd(R0, FDiv(FMul(FMul(T0, T0), R0),
                                FSub(One, FMul(R0, R0))))
             ELSE R0
        pr == Masked(R, "Reflection", mask)
        pt == Masked(FSub(One, R), "Transmission", mask)
    IN  IF pr = Zero /\ pt = Zero THEN NoRet
        ELSE IF FLess(d.uc, FDiv(pr, FAdd(pr, pt)))
        THEN BSDFSample(Gray(FDiv(R, AbsCosTheta(o))), o,
                        FDiv(pr, FAdd(pr, pt)), {"Specular", "Reflection"})
        ELSE BSDFSample(Gray(FDiv(FSub(One, R), AbsCosTheta(-o))), -o,
                        FDiv(pt, FAdd(pr, pt)), {"Specular", "Transmission"})

\* ConductorBxDF::Sample_f
ConductorSample(b, o, mask, d) ==
    IF "Reflection" \notin mask THEN NoRet
    ELSE IF b.specular
    THEN BSDFSample(Gray(FDiv(Fresnel(o), AbsCosTheta(o))), o, One,
                    {"Specular", "Reflection"})
    ELSE IF o = 0 \/ ~d.ok THEN NoRet
    ELSE BSDFSample(Gray(FDiv(Fresnel(o),
                              FMul(Float(4, 1),
                                   FMul(AbsCosTheta(o), AbsCosTheta(o))))),
                    o, Half, {"Glossy", "Reflection"})

\* dispatch of Sample_f over the variants
SampleOf(b, o, mask, d) ==
    CASE b.variant = "idealdiffuse" -> IdealDiffuseSample(b, o, mask, d)
      [] b.variant = "diffuse" -> DiffuseSample(b, o, mask, d)
      [] b.variant = "dielectric" -> DielectricSample(b, o, mask, d)
      [] b.variant = "thin" -> ThinDielectricSample(b, o, mask, d)
      [] b.variant = "conductor" -> ConductorSample(b, o, mask, d)

\* the calls made: every variant, every lobe mask, wo and wi along the normal
\* or in the surface
BxCalls ==
    { c \in [pc : {"call"}, op : {"Sample_f", "f", "PDF"},
             variant : {"idealdiffuse", "diffuse", "dielectric", "thin",
                        "conductor"},
             specular : BOOLEAN, R : {Gray(Zero), Gray(Half)},
             T : {Gray(Zero), Gray(Half)}, layered : BOOLEAN,
             woZ : {-1, 0, 1}, wiZ : {-1, 0, 1},
             mask : SUBSET {"Reflection", "Transmission"},
             mode : {"Radiance", "Importance"}] :
        /\ c.specular => c.variant \in {"dielectric", "conductor"}
        /\ c.variant # "diffuse" => c.T = Gray(Zero)
        /\ c.variant \notin {"diffuse", "idealdiffuse"} => c.R = Gray(Zero)
        /\ c.layered => c.op = "Sample_f"
        /\ c.op = "Sample_f" => c.wiZ = 1
        /\ c.op # "Sample_f" =>
             c.mask = {"Reflection", "Transmission"} \/ c.op = "PDF"
        /\ c.mode = "Importance" => c.variant = "dielectric" }
\* the values the samplers draw: uc, SampleCosineHemisphere(u).z, and whether
\* the sampled geometry is usable
BxDraws == [uc : {Zero, Half}, cosZ : {0, 1}, ok : BOOLEAN]

InitBxDF ==
    /\ LiIdle
    /\ LayeredIdle
    /\ CallsIdle /\ CompIdle /\ CreateIdle /\ ErrIdle /\ MoreIdle
    /\ bxCall \in BxCalls
    /\ bxRet = [s |-> NoRet, f |-> Gray(Zero), fRev |-> Gray(Zero),
                pdf |-> Zero]

\* Sample_f of a variant
BxSample_f ==
    /\ bxCall.pc = "call" /\ bxCall.op = "Sample_f" /\ ~bxCall.layered
    /\ \E d \in BxDraws :
         bxRet' = [bxRet EXCEPT
                     !.s = SampleOf(bxCall, bxCall.woZ, bxCall.mask, d)]
    /\ bxCall' = [bxCall EXCEPT !.pc = "done"]
    /\ UNCHANGED bxRest

\* LayeredBxDF::Sample_f, lines 932-952, with the variant as the interface
\* the walk enters through; the walk itself returns {} or leaves the slab
BxLayeredSample_f ==
    /\ bxCall.pc = "call" /\ bxCall.op = "Sample_f" /\ bxCall.layered
    /\ IF bxCall.mask # {"Reflection", "Transmission"}
       THEN bxRet' = [bxRet EXCEPT !.s = [NoRet EXCEPT !.kind = "abort"]]
       ELSE \E d \in BxDraws, w \in {-1, 1} :
              LET fl == Flips(config, bxCall.woZ)
                  o == IF fl THEN -bxCall.woZ ELSE bxCall.woZ
                  x == SampleOf(bxCall, o, {"Reflection", "Transmission"}, d)
              IN  bxRet' = [bxRet EXCEPT !.s =
                      IF ~BSDFValid(x) THEN NoRet
                      ELSE IF "Reflection" \in x.flags
                      THEN [x EXCEPT !.wZ = FlipBack(fl, @)]
                      ELSE IF ~d.ok THEN NoRet
                      ELSE BSDFSample(Gray(Half), FlipBack(fl, w), Half,
                                      ExitFlags(o, w))]
    /\ bxCall' = [bxCall EXCEPT !.pc = "done"]
    /\ UNCHANGED bxRest

\* f(wo, wi, mode)
BxF ==
    /\ bxCall.pc = "call" /\ bxCall.op = "f"
    /\ bxRet' = [bxRet EXCEPT !.f = FOf(bxCall, bxCall.woZ, bxCall.wiZ)]
    /\ bxCall' = [bxCall EXCEPT !.pc = "swapped"]
    /\ UNCHANGED bxRest

\* f(wi, wo, mode): the same distribution with the directions exchanged
BxFSwapped ==
    /\ bxCall.pc = "swapped"
    /\ bxRet' = [bxRet EXCEPT !.fRev = FOf(bxCall, bxCall.wiZ, bxCall.woZ)]
    /\ bxCall' = [bxCall EXCEPT !.pc = "done"]
    /\ UNCHANGED bxRest

\* PDF(wo, wi, mode, sampleFlags)
BxPDF ==
    /\ bxCall.pc = "call" /\ bxCall.op = "PDF"
    /\ bxRet' = [bxRet EXCEPT
                   !.pdf = PDFOf(bxCall, bxCall.woZ, bxCall.wiZ, bxCall.mask)]
    /\ bxCall' = [bxCall EXCEPT !.pc = "done"]
    /\ UNCHANGED bxRest

NextBxDF ==
    \/ BxSample_f
    \/ BxLayeredSample_f
    \/ BxF
    \/ BxFSwapped
    \/ BxPDF

SpecBxDF == InitBxDF /\ [][NextBxDF]_vars

\* C14: Sample_f of every variant returns an invalid sample when wo.z = 0.
C14Claim ==
    (bxCall.pc = "done" /\ bxCall.op = "Sample_f" /\ bxCall.woZ = 0)
        => ~BSDFValid(bxRet.s)

\* C15: a valid sample is a reflection only if Reflection is in the lobe
\* mask and a transmission only if Transmission is; when the mask leaves the
\* variant no lobe with a selection weight, Sample_f returns an invalid
\* sample; and Sample_f never fails.
C15Claim ==
    (bxCall.pc = "done" /\ bxCall.op = "Sample_f") =>
      LET lobes ==
            CASE bxCall.variant \in {"idealdiffuse", "conductor"} ->
                   {"Reflection"}
              [] bxCall.variant = "diffuse" ->
                   {l \in {"Reflection"} : bxCall.R # Gray(Zero)}
                   \cup {l \in {"Transmission"} : bxCall.T # Gray(Zero)}
              [] OTHER -> {"Reflection", "Transmission"}
      IN  /\ bxRet.s.kind # "abort"
          /\ BSDFValid(bxRet.s) =>
               (bxRet.s.flags \cap {"Reflection", "Transmission"})
                   \subseteq bxCall.mask
          /\ (~bxCall.layered /\ lobes \cap bxCall.mask = {})
               => ~BSDFValid(bxRet.s)

\* C16: for the variants whose lobe is a delta (specular dielectric
\* interface, thin dielectric, specular conductor), f and PDF return zero,
\* and every valid sample has the Specular flag, a finite pdf > 0 and a
\* finite f / pdf.
C16Claim ==
    (/\ bxCall.pc = "done" /\ ~bxCall.layered
     /\ bxCall.variant = "thin" \/ bxCall.specular) =>
      /\ bxCall.op = "f" => (bxRet.f = Gray(Zero) /\ bxRet.fRev = Gray(Zero))
      /\ bxCall.op = "PDF" => bxRet.pdf = Zero
      /\ (bxCall.op = "Sample_f" /\ BSDFValid(bxRet.s)) =>
           /\ "Specular" \in bxRet.s.flags
           /\ FLess(Zero, bxRet.s.pdf) /\ ~IsInf(bxRet.s.pdf)
           /\ \A c \in Channels :
                LET ratio == FDiv(bxRet.s.f[c], bxRet.s.pdf)
                IN  ~IsNaN(ratio) /\ ~IsInf(ratio)

\* C17: f(wo, wi, Radiance) and f(wi, wo, Radiance) are equal, or differ by
\* the square of the ratio of the refractive indices when wi is a
\* transmission of wo.
C17Claim ==
    (bxCall.pc = "done" /\ bxCall.op = "f" /\ bxCall.mode = "Radiance") =>
      \/ bxRet.f = bxRet.fRev
      \/ /\ ~SameHemisphere(bxCall.woZ, bxCall.wiZ)
         /\ \/ bxRet.f = SScale(bxRet.fRev, FMul(Eta, Eta))
            \/ bxRet.fRev = SScale(bxRet.f, FMul(Eta, Eta))

(***************************************************************************)
(* The layered composites CoatedDiffuseBxDF and CoatedConductorBxDF: their *)
(* construction, Flags() and the calls of f, Sample_f and PDF              *)
(***************************************************************************)
\* variant: the dielectric interface reports no transmission
ChildFlagsOpaque(v, sp, R) == {"Reflection", IF sp THEN "Specular" ELSE "Glossy"}
\* Flags() of DielectricInterfaceBxDF, IdealDiffuseBxDF and ConductorBxDF
ChildFlags(v, sp, R) ==
    CASE v = "dielectric" ->
           {"Reflection", "Transmission", IF sp THEN "Specular" ELSE "Glossy"}
      [] v = "idealdiffuse" ->
           IF R # Gray(Zero) THEN {"Diffuse", "Reflection"} ELSE {}
      [] v = "conductor" ->
           {"Reflection", IF sp THEN "Specular" ELSE "Glossy"}
\* BSDFSample::operator bool, for a sample of positive pdf: a valid sample
\* has a nonzero f
ValidSample(fv) == ~IsBlack(fv)
\* the valid samples Sample_f of a child returns, by their lobe and flags:
\* DielectricInterfaceBxDF (lines 285, 305, 346-348, 384-386),
\* IdealDiffuseBxDF (53, with f = R * InvPi), ConductorBxDF (594, 618)
ChildSamples(v, sp, R) ==
    LET lobe == IF sp THEN "Specular" ELSE "Glossy"
    IN  CASE v = "dielectric" ->
               { [valid |-> TRUE, refl |-> TRUE,
                  flags |-> {lobe, "Reflection"}],
                 [valid |-> TRUE, refl |-> FALSE,
                  flags |-> {lobe, "Transmission"}] }
          [] v = "idealdiffuse" ->
               IF ValidSample(R)
               THEN { [valid |-> TRUE, refl |-> TRUE,
                       flags |-> {"Diffuse", "Reflection"}] }
               ELSE {}
          [] v = "conductor" ->
               { [valid |-> TRUE, refl |-> TRUE,
                  flags |-> {lobe, "Reflection"}] }
\* IsTransmissive(flags)
IsTransmissive(fl) == "Transmission" \in fl

\* LayeredBxDF::Flags(): the result, or {"abort"} when the CHECK fails
LayeredFlags(c) ==
    LET topFlags == ChildFlags(c.top, c.topSpecular, Gray(Zero))
        bottomFlags == ChildFlags(c.bottom, c.bottomSpecular, c.bottomR)
    IN  IF ~(IsTransmissive(topFlags) \/ IsTransmissive(bottomFlags))
        THEN {"abort"}
        ELSE {"Reflection"}
             \cup (IF "Specular" \in topFlags THEN {"Specular"} ELSE {})
             \cup (IF "Diffuse" \in topFlags \/ "Diffuse" \in bottomFlags
                      \/ ~IsBlack(c.albedo)
                   THEN {"Diffuse"}
                   ELSE IF "Glossy" \in topFlags \/ "Glossy" \in bottomFlags
                   THEN {"Glossy"} ELSE {})
             \cup (IF IsTransmissive(topFlags) /\ IsTransmissive(bottomFlags)
                   THEN {"Transmission"} ELSE {})

\* std::numeric_limits<Float>::min(), as a small positive value
FloatMin == Float(1, 1024)

\* the composites the constructors make: CoatedDiffuseBxDF is
\* LayeredBxDF<DielectricInterfaceBxDF, IdealDiffuseBxDF, false>,
\* CoatedConductorBxDF is LayeredBxDF<DielectricInterfaceBxDF, ConductorBxDF,
\* false>; thickness is std::max(thickness, min)
InitComposite ==
    /\ LiIdle /\ LayeredIdle
    /\ CallsIdle /\ BxIdle /\ CreateIdle /\ ErrIdle /\ MoreIdle
    /\ \E bottom \in {"idealdiffuse", "conductor"}, ts \in BOOLEAN,
          bsp \in BOOLEAN, R \in {Gray(Zero), Gray(Half)},
          a \in {Gray(Zero), Gray(Half)}, th \in {0, 1, 2},
          two \in BOOLEAN :
         /\ bottom = "idealdiffuse" => ~bsp
         /\ bottom = "conductor" => R = Gray(Zero)
         /\ composite = [top |-> "dielectric", bottom |-> bottom,
                         topSpecular |-> ts, bottomSpecular |-> bsp,
                         bottomR |-> R, albedo |-> a,
                         thickness |-> FMax(Float(th, 1), FloatMin),
                         twoSided |-> two,
                         pc |-> "made", flags |-> {}, sample |-> NoFlagged]

\* Flags()
CompFlags ==
    /\ composite.pc \notin {"idle", "aborted"}
    /\ composite' = [composite EXCEPT
                       !.flags = LayeredFlags(composite),
                       !.pc = IF LayeredFlags(composite) = {"abort"}
                              THEN "aborted" ELSE "Flags"]
    /\ UNCHANGED compRest

\* f or PDF is called on the composite
CompEvaluate ==
    /\ composite.pc \notin {"idle", "aborted"}
    /\ \E op \in {"f", "PDF"} :
         composite' = [composite EXCEPT !.pc = op]
    /\ UNCHANGED compRest

\* Sample_f is called on the composite (lines 932-1052): the entrance child
\* is sampled; its reflection is returned as the child made it (943-951); a
\* transmission starts the walk, which returns nothing or leaves through a
\* transmission of the interface it is at (1032-1046); it comes back to the
\* interface it entered through only after the medium or the other interface
\* turned it around
CompSample ==
    /\ composite.pc \notin {"idle", "aborted"}
    /\ \E wo \in {-1, 1}, leaves \in {"nowhere", "top", "bottom"} :
         LET o == IF Flips(composite, wo) THEN -wo ELSE wo
             interface(side) ==
                 ChildSamples(IF side = "top" THEN composite.top
                              ELSE composite.bottom,
                              IF side = "top" THEN composite.topSpecular
                              ELSE composite.bottomSpecular,
                              IF side = "top" THEN Gray(One)
                              ELSE composite.bottomR)
             entrance == interface(IF o > 0 THEN "top" ELSE "bottom")
         IN  \E es \in entrance \cup {NoFlagged} :
               /\ (~es.valid \/ es.refl) => leaves = "nowhere"
               /\ leaves # "nowhere" => \E x \in interface(leaves) : ~x.refl
               /\ leaves = (IF o > 0 THEN "top" ELSE "bottom")
                    => \/ ~IsBlack(composite.albedo)
                       \/ \E x \in interface(IF o > 0 THEN "bottom"
                                               ELSE "top") : x.refl
               /\ composite' = [composite EXCEPT
                     !.pc = "Sample_f",
                     !.sample =
                        IF ~es.valid THEN NoFlagged
                        ELSE IF es.refl THEN es
                        ELSE IF leaves = "nowhere" THEN NoFlagged
                        ELSE [valid |-> TRUE, refl |-> FALSE,
                              flags |-> ExitFlags(o, IF leaves = "top" THEN 1
                                                     ELSE -1)]]
    /\ UNCHANGED compRest

NextComposite ==
    \/ CompFlags
    \/ CompEvaluate
    \/ CompSample

SpecComposite == InitComposite /\ [][NextComposite]_vars

\* C18: every composite that is made has a transmissive child, the check of
\* Flags() never fails, and f, Sample_f and PDF are only called on
\* composites with a transmissive child.
C18Thm ==
    composite.pc # "idle" =>
      /\ \/ IsTransmissive(ChildFlags(composite.top, composite.topSpecular,
                                      Gray(Zero)))
         \/ IsTransmissive(ChildFlags(composite.bottom,
                                      composite.bottomSpecular,
                                      composite.bottomR))
      /\ composite.pc # "aborted"
      /\ "abort" \notin composite.flags
\* Flags() has run on a composite whose bottom is opaque, and then PDF
C18Wit ==
    /\ composite.pc = "PDF" /\ composite.bottom = "conductor"
    /\ composite.flags = {"Reflection", "Specular", "Glossy"}

(***************************************************************************)
(* core/error.cpp: Error, Warning, ErrorExit and processError              *)
(***************************************************************************)
\* the error string of a message; parse::currentLineNumber is 0, so no file
\* position is put in front of the formatted message
ErrorString(msg) == msg

\* variant: the comparison with lastError is skipped
IsRepeatNever(errorString, last) == FALSE
\* errorString != lastError, negated
IsRepeat(errorString, last) == errorString = last

\* the body of processError under the lock: the log and lastError after it
LogAfter(log, last, errorType, msg) ==
    IF ~IsRepeat(ErrorString(msg), last)
    THEN Append(log, <<IF errorType = "Warning" THEN "WARNING" ELSE "ERROR",
                       ErrorString(msg)>>)
    ELSE log
LastErrorAfter(last, msg) ==
    IF ~IsRepeat(ErrorString(msg), last) THEN ErrorString(msg) ELSE last

\* the number of entries of the log that carry the string s
Logged(log, s) == Cardinality({i \in 1..Len(log) : log[i][2] = s})

(***************************************************************************)
(* integrators/volpath.cpp: CreateVolPathIntegrator                        *)
(***************************************************************************)
IMin(a, b) == IF a <= b THEN a ELSE b
IMax(a, b) == IF a >= b THEN a ELSE b
\* Bounds2i as <<xmin, ymin, xmax, ymax>>; the two-point constructor orders
\* the corners
Bounds2i(p1, p2) ==
    <<IMin(p1[1], p2[1]), IMin(p1[2], p2[2]),
      IMax(p1[1], p2[1]), IMax(p1[2], p2[2])>>
IntersectBounds(b1, b2) ==
    <<IMax(b1[1], b2[1]), IMax(b1[2], b2[2]),
      IMin(b1[3], b2[3]), IMin(b1[4], b2[4])>>
Empty(b) == b[1] >= b[3] \/ b[2] >= b[4]

\* camera->film->GetSampleBounds()
SampleBounds == <<0, 0, 2, 2>>
\* the values and the lengths of "pixelbounds"
PbValues == {0, 1, 2, 3}
PbSizes == {0, 1, 3, 4, 5}

FourValuesMsg(n) ==
    "Expected four values for \"pixelbounds\" parameter. Got " \o ToString(n)
      \o "."
DegenerateMsg == "Degenerate \"pixelbounds\" specified."

\* pixelBounds = Intersect(pixelBounds, Bounds2i{{pb[0], pb[2]}, {pb[1], pb[3]}})
Clipped(bounds, pb) ==
    IntersectBounds(bounds, Bounds2i(<<pb[1], pb[3]>>, <<pb[2], pb[4]>>))

\* the messages CreateVolPathIntegrator passes to Error, in order
CreateErrors(pb) ==
    IF Len(pb) = 0 THEN <<>>
    ELSE IF Len(pb) # 4 THEN <<FourValuesMsg(Len(pb))>>
    ELSE IF Empty(Clipped(SampleBounds, pb)) THEN <<DegenerateMsg>>
    ELSE <<>>
\* pixelBounds as passed to the constructor of VolPathIntegrator
CreateBounds(pb) ==
    IF Len(pb) = 4 THEN Clipped(SampleBounds, pb) ELSE SampleBounds

InitCreate ==
    /\ LiIdle /\ LayeredIdle
    /\ CallsIdle /\ BxIdle /\ CompIdle /\ MoreIdle
    /\ raisers = [t \in Threads |->
                    [pc |-> "idle", msg |-> "", type |-> "", n |-> 0]]
    /\ mutex = 0
    /\ exited = FALSE
    /\ quiet \in BOOLEAN
    /\ \E earlier \in {<<>>, <<<<"ERROR", "A">>>>} :
         /\ errLog = earlier
         /\ lastError = IF earlier = <<>> THEN "" ELSE "A"
    /\ \E n \in PbSizes : \E pb \in [1..n -> PbValues] :
         params = [maxdepth |-> 5, pixelbounds |-> pb]
    /\ integrator = [made |-> FALSE, pixelBounds |-> <<0, 0, 0, 0>>]

CreateVolPathIntegrator ==
    /\ ~integrator.made
    /\ LET pb == params.pixelbounds
           errs == CreateErrors(pb)
       IN  /\ errLog' = IF errs = <<>> THEN errLog
                        ELSE LogAfter(errLog, lastError, "Error", errs[1])
           /\ lastError' = IF errs = <<>> THEN lastError
                           ELSE LastErrorAfter(lastError, errs[1])
           /\ integrator' = [made |-> TRUE, pixelBounds |-> CreateBounds(pb)]
    /\ UNCHANGED <<params, raisers, mutex, exited, quiet>>
    /\ UNCHANGED createRest

NextCreate == CreateVolPathIntegrator

SpecCreate == InitCreate /\ [][NextCreate]_vars

\* "pixelbounds" is given and is not four values, or is empty after clipping
Malformed(pb) ==
    /\ Len(pb) # 0
    /\ Len(pb) # 4 \/ Empty(Clipped(SampleBounds, pb))

\* C19: when "pixelbounds" is malformed, an error is reported, the integrator
\* has the film's full sample bounds, and an integrator is returned.
C19Claim ==
    (integrator.made /\ Malformed(params.pixelbounds)) =>
      /\ Len(errLog) > 0 /\ errLog[Len(errLog)][1] = "ERROR"
      /\ integrator.pixelBounds = SampleBounds

(***************************************************************************)
(* core/error.cpp: threads that call Warning, Error and ErrorExit          *)
(***************************************************************************)
MaxRaises == 3         \* calls of Warning, Error, ErrorExit by one thread
\* the formatted messages; the format "" gives the empty errorString
Msgs == {"", "A", "B"}
ErrorTypes == {"Warning", "Error", "ErrorExit"}

InitErrors ==
    /\ LiIdle /\ LayeredIdle
    /\ CallsIdle /\ BxIdle /\ CompIdle /\ CreateIdle /\ MoreIdle
    /\ raisers = [t \in Threads |->
                    [pc |-> "idle", msg |-> "", type |-> "", n |-> 0]]
    /\ lastError = ""
    /\ mutex = 0
    /\ errLog = <<>>
    /\ exited = FALSE
    /\ quiet \in BOOLEAN

\* Warning(msg), Error(msg) or ErrorExit(msg) is called and processError has
\* built errorString; Warning returns at once when PbrtOptions.quiet is set
Raise(t) ==
    /\ ~exited
    /\ raisers[t].pc = "idle"
    /\ raisers[t].n < MaxRaises
    /\ \E type \in ErrorTypes, msg \in Msgs :
         raisers' = [raisers EXCEPT ![t] =
                       IF type = "Warning" /\ quiet
                       THEN [@ EXCEPT !.n = @ + 1]
                       ELSE [pc |-> "called", msg |-> msg, type |-> type,
                             n |-> @.n + 1]]
    /\ UNCHANGED <<lastError, mutex, errLog, exited, quiet>>
    /\ UNCHANGED errRest

\* std::lock_guard<std::mutex> lock(mutex)
Lock(t) ==
    /\ ~exited
    /\ raisers[t].pc = "called"
    /\ mutex = 0
    /\ mutex' = t
    /\ raisers' = [raisers EXCEPT ![t].pc = "locked"]
    /\ UNCHANGED <<lastError, errLog, exited, quiet>>
    /\ UNCHANGED errRest

\* if (errorString != lastError) { LOG(...) << errorString; lastError = ... }
Report(t) ==
    /\ ~exited
    /\ raisers[t].pc = "locked"
    /\ errLog' = LogAfter(errLog, lastError,
                          IF raisers[t].type = "Warning" THEN "Warning"
                          ELSE "Error", raisers[t].msg)
    /\ lastError' = LastErrorAfter(lastError, raisers[t].msg)
    /\ raisers' = [raisers EXCEPT ![t].pc = "reported"]
    /\ UNCHANGED <<mutex, exited, quiet>>
    /\ UNCHANGED errRest

\* the lock is released when processError returns
Unlock(t) ==
    /\ ~exited
    /\ raisers[t].pc = "reported"
    /\ mutex' = 0
    /\ raisers' = [raisers EXCEPT ![t].pc =
                     IF raisers[t].type = "ErrorExit" THEN "cleanup"
                     ELSE "idle"]
    /\ UNCHANGED <<lastError, errLog, exited, quiet>>
    /\ UNCHANGED errRest

\* ErrorExit: ParallelCleanup(); exit(1)
Exit(t) ==
    /\ ~exited
    /\ raisers[t].pc = "cleanup"
    /\ exited' = TRUE
    /\ raisers' = [raisers EXCEPT ![t].pc = "exited"]
    /\ UNCHANGED <<lastError, mutex, errLog, quiet>>
    /\ UNCHANGED errRest

NextErrors ==
    \/ \E t \in Threads : Raise(t)
    \/ \E t \in Threads : Lock(t)
    \/ \E t \in Threads : Report(t)
    \/ \E t \in Threads : Unlock(t)
    \/ \E t \in Threads : Exit(t)

SpecErrors == InitErrors /\ [][NextErrors]_vars

\* C20: each distinct message raised through Error or Warning is written to
\* the log at most once over the whole run.
C20Claim == \A s \in Msgs : Logged(errLog, s) <= 1

(***************************************************************************)
(* integrators/volpath.cpp: worker threads that each trace paths with Li.  *)
(* Of a path only what decides the writes to state outside the call is     *)
(* kept: the loop counter and which branch an iteration takes.             *)
(***************************************************************************)
MaxPaths == 1          \* paths traced by one worker

InitWorkers ==
    /\ LayeredIdle
    /\ CallsIdle /\ BxIdle /\ CompIdle /\ CreateIdle /\ ErrIdle
    /\ TexIdle /\ FIdle
    /\ pc = "idle"
    /\ depth = 0
    /\ beta = Gray(One)
    /\ L = Gray(Zero)
    /\ etaScale = One
    /\ specularBounce = FALSE
    /\ ray = [d |-> "d1", medium |-> FALSE]
    /\ hit = "none"
    /\ miValid = FALSE
    /\ bs = NoSample
    /\ rr = NoRR
    /\ maxDepth \in MaxDepths
    /\ rrThreshold = One
    /\ lastScatter = "none"
    /\ nScatter = 0
    /\ skips = 0
    /\ lit = 0
    /\ WorkIdle

workRest == <<baseRest, errVars, texVars, fVars>>

\* variant: the counter is not touched
CountedNot(st, ev) == st
\* ++volumeInteractions;  ++surfaceInteractions;
Counted(st, ev) ==
    IF ev = "medium"
    THEN [st EXCEPT !.volumeInteractions = @ + 1]
    ELSE IF ev = "surface"
    THEN [st EXCEPT !.surfaceInteractions = @ + 1]
    ELSE st

\* variant: the path length is reported in every iteration
ReportedAlways(st, atEnd) == [st EXCEPT !.pathLength = @ + 1]
\* ReportValue(pathLength, depth), after the loop
Reported(st, atEnd) == IF atEnd THEN [st EXCEPT !.pathLength = @ + 1] ELSE st

\* a worker calls Li for a new camera ray: lines 53-67
BeginPath(t) ==
    /\ workers[t].pc = "idle"
    /\ workers[t].paths < MaxPaths
    /\ workers' = [workers EXCEPT ![t] =
                     [@ EXCEPT !.pc = "loop", !.depth = 0, !.skips = 0,
                               !.ev = "none"]]
    /\ UNCHANGED <<stats, workRest>>

\* one iteration of the loop of Li: lines 69-175
Iterate(t) ==
    /\ workers[t].pc = "loop"
    /\ \E black \in BOOLEAN, valid \in BOOLEAN, found \in BOOLEAN,
          bsdf \in BOOLEAN, sampled \in BOOLEAN, killed \in BOOLEAN :
         LET w == workers[t]
             ev == IF black THEN "black"
                   ELSE IF valid
                   THEN (IF w.depth >= maxDepth THEN "full" ELSE "medium")
                   ELSE "surface"
             skip == ev = "surface" /\ found /\ w.depth < maxDepth /\ ~bsdf
             stop == \/ ev \in {"black", "full"}
                     \/ ev = "surface"
                          /\ (~found \/ w.depth >= maxDepth
                                \/ (bsdf /\ ~sampled))
                     \/ ~skip /\ killed /\ w.depth > 3
         IN  /\ skip => w.skips < MaxSkips
             /\ stats' = Reported(Counted(stats, ev), FALSE)
             /\ workers' = [workers EXCEPT ![t] =
                   [@ EXCEPT !.ev = ev,
                             !.pc = IF stop THEN "report" ELSE "loop",
                             !.skips = IF skip THEN @ + 1 ELSE @,
                             !.depth = IF stop \/ skip THEN @ ELSE @ + 1]]
    /\ UNCHANGED workRest

\* lines 176-177: ReportValue(pathLength, depth); return L
ReportPath(t) ==
    /\ workers[t].pc = "report"
    /\ stats' = Reported(stats, TRUE)
    /\ workers' = [workers EXCEPT ![t].pc = "returned"]
    /\ UNCHANGED workRest

\* the caller of Li adds the returned radiance to the output buffer
AddSample(t) ==
    /\ workers[t].pc = "returned"
    /\ stats' = [stats EXCEPT !.film = @ + 1]
    /\ workers' = [workers EXCEPT ![t] =
                     [@ EXCEPT !.pc = "idle", !.paths = @ + 1]]
    /\ UNCHANGED workRest

NextWorkers ==
    \/ \E t \in Threads : BeginPath(t)
    \/ \E t \in Threads : Iterate(t)
    \/ \E t \in Threads : ReportPath(t)
    \/ \E t \in Threads : AddSample(t)

SpecWorkers == InitWorkers /\ [][NextWorkers]_vars

MaxCreates == 3        \* textures created in one run

TexTypes == {"Float", "Spectrum"}
Mappings == {"uv", "spherical", "cylindrical", "planar", "bogus"}
KnownMappings == {"uv", "spherical", "cylindrical", "planar"}
Filenames == {"a.png"}
Filters == {"bilinear", "bogus"}
WrapStrings == {"repeat", "bogus"}
WrapModes == {"repeat", "clamp"}

MappingMsg(type) == "2D texture mapping \"" \o type \o "\" unknown"
WrapMsg(wrap) == wrap \o ": wrap mode unknown"
FilterMsg(filter) == filter \o ": filter function unknown"

\* variant: an unknown mapping leaves the texture without a mapping
MappingOrNone(type) ==
    IF type \in KnownMappings THEN [type |-> type, default |-> FALSE]
    ELSE [type |-> "none", default |-> FALSE]
\* the TextureMapping2D made for "mapping"; UVMapping2D() when it is unknown
MappingOf(type) ==
    IF type \in KnownMappings THEN [type |-> type, default |-> FALSE]
    ELSE [type |-> "uv", default |-> TRUE]

\* the calls of Error and Warning made for the mapping, the wrap mode and the
\* filter, in order, as <<errorType, message>>
MappingErrors(type) ==
    IF type \in KnownMappings THEN <<>> ELSE <<<<"Error", MappingMsg(type)>>>>
WrapErrors(wrap) ==
    IF wrap \in WrapModes THEN <<>> ELSE <<<<"Warning", WrapMsg(wrap)>>>>
FilterErrors(filter) ==
    IF filter = "bilinear" THEN <<>> ELSE <<<<"Warning", FilterMsg(filter)>>>>

\* Error and Warning called in turn: <<log, lastError>> after the calls
RECURSIVE Raised(_, _, _, _)
Raised(es, log, last, q) ==
    IF es = <<>> THEN <<log, last>>
    ELSE IF es[1][1] = "Warning" /\ q THEN Raised(Tail(es), log, last, q)
    ELSE Raised(Tail(es), LogAfter(log, last, es[1][1], es[1][2]),
                LastErrorAfter(last, es[1][2]), q)

\* two TexInfo keys are equal: neither is less than the other
SameKey(k1, k2) == k1 = k2
\* textures.find(texInfo): the entries of the cache of ImageTexture<T> whose
\* key equals texInfo
Lookup(tex, T, k) == {e \in tex : e[1] = T /\ SameKey(e[2], k)}

\* variant: the result of the load is stored whether or not it is null
InsertedAlways(tex, T, k, id, ok) ==
    tex \cup {<<T, k, IF ok THEN id ELSE 0>>}
\* if (mipmap) textures[texInfo] = std::move(mipmap)
Inserted(tex, T, k, id, ok) == IF ok THEN tex \cup {<<T, k, id>>} ELSE tex

InitTextures ==
    /\ LiIdle /\ LayeredIdle
    /\ CallsIdle /\ BxIdle /\ CompIdle /\ CreateIdle
    /\ WorkIdle /\ FIdle
    /\ raisers = [t \in Threads |->
                    [pc |-> "idle", msg |-> "", type |-> "", n |-> 0]]
    /\ mutex = 0
    /\ exited = FALSE
    /\ quiet \in BOOLEAN
    /\ errLog = <<>>
    /\ lastError = ""
    /\ TexIdle

texRest == <<baseRest, workVars, fVars, raisers, mutex, exited, quiet>>

\* CreateBilerpFloatTexture, CreateBilerpSpectrumTexture
CreateBilerpTexture ==
    /\ texCall.n < MaxCreates
    /\ \E T \in TexTypes, type \in Mappings :
         LET after == Raised(MappingErrors(type), errLog, lastError, quiet)
         IN  /\ errLog' = after[1]
             /\ lastError' = after[2]
             /\ texCall' = [kind |-> "bilerp", T |-> T, mapping |-> type,
                            key |-> <<"", "", "">>, n |-> texCall.n + 1,
                            map |-> MappingOf(type), mipmap |-> 0,
                            hit |-> FALSE, made |-> TRUE]
    /\ UNCHANGED <<textures, loads, texRest>>

\* CreateImageFloatTexture, CreateImageSpectrumTexture, with the constructor
\* of ImageTexture<T> and GetTexture; wrapMode is not initialised when
\* ParseWrapMode fails, and MIPMap::CreateFromFile may fail
CreateImageTexture ==
    /\ texCall.n < MaxCreates
    /\ \E T \in TexTypes, type \in Mappings, filename \in Filenames,
          filter \in Filters, wrap \in WrapStrings, wrapMode \in WrapModes,
          loaded \in BOOLEAN :
         LET k == <<filename, filter, wrapMode>>
             found == Lookup(textures, T, k)
             cached == found # {}
             id == Len(loads) + 1
             es == MappingErrors(type) \o WrapErrors(wrap)
                     \o (IF cached THEN <<>> ELSE FilterErrors(filter))
             after == Raised(es, errLog, lastError, quiet)
         IN  /\ wrap \in WrapModes => wrapMode = wrap
             /\ cached => ~loaded
             /\ errLog' = after[1]
             /\ lastError' = after[2]
             /\ loads' = IF cached THEN loads
                         ELSE Append(loads, [T |-> T, key |-> k,
                                             ok |-> loaded])
             /\ textures' = IF cached THEN textures
                            ELSE Inserted(textures, T, k, id, loaded)
             /\ texCall' = [kind |-> "imagemap", T |-> T, mapping |-> type,
                            key |-> k, n |-> texCall.n + 1,
                            map |-> MappingOf(type),
                            mipmap |-> IF cached
                                       THEN (CHOOSE e \in found : TRUE)[3]
                                       ELSE IF loaded THEN id ELSE 0,
                            hit |-> cached, made |-> TRUE]
    /\ UNCHANGED texRest

NextTextures ==
    \/ CreateBilerpTexture
    \/ CreateImageTexture

SpecTextures == InitTextures /\ [][NextTextures]_vars

\* the entries written to the log by the last step
NewEntries == SubSeq(errLog', Len(errLog) + 1, Len(errLog'))

\* C22: when "mapping" names an unknown 2D mapping, the creation of a bilerp
\* or image texture reports an error (the message is in the log, as an
\* error), uses the default UV mapping and returns a texture; for uv,
\* spherical, cylindrical and planar no error is written.
C22Thm ==
    [][texCall'.n # texCall.n =>
         /\ texCall'.made
         /\ texCall'.mapping \notin KnownMappings =>
              /\ \E i \in 1..Len(errLog') :
                   errLog'[i] = <<"ERROR", MappingMsg(texCall'.mapping)>>
              /\ texCall'.map = [type |-> "uv", default |-> TRUE]
         /\ texCall'.mapping \in KnownMappings =>
              /\ \A i \in 1..Len(NewEntries) : NewEntries[i][1] # "ERROR"
              /\ texCall'.map = [type |-> texCall'.mapping,
                                 default |-> FALSE]]_vars
\* an image texture and a bilerp texture were made with an unknown mapping
C22Wit ==
    /\ texCall.made /\ texCall.kind = "bilerp" /\ texCall.mapping = "bogus"
    /\ texCall.n = 2 /\ Len(loads) = 1
    /\ Logged(errLog, MappingMsg("bogus")) = 1

\* C30: each cache of image textures holds at most one MIPMap per key; a call
\* of GetTexture whose key is in the cache returns the cached MIPMap and
\* loads nothing; a call whose key is not in it loads, and inserts and
\* returns the MIPMap when the load succeeds, or inserts nothing and returns
\* null when it fails; no entry is ever replaced or removed.
C30Thm ==
    [][/\ textures \subseteq textures'
       /\ \A e1 \in textures', e2 \in textures' :
            (e1[1] = e2[1] /\ e1[2] = e2[2]) => e1 = e2
       /\ (texCall'.n # texCall.n /\ texCall'.kind = "imagemap") =>
            LET found == {e \in textures : e[1] = texCall'.T
                                            /\ e[2] = texCall'.key}
            IN  /\ found # {} =>
                     /\ loads' = loads
                     /\ textures' = textures
                     /\ \E e \in found : texCall'.mipmap = e[3]
                /\ found = {} =>
                     /\ Len(loads') = Len(loads) + 1
                     /\ loads'[Len(loads')].key = texCall'.key
                     /\ loads'[Len(loads')].ok =>
                          /\ texCall'.mipmap # 0
                          /\ textures' = textures \cup
                               {<<texCall'.T, texCall'.key,
                                  texCall'.mipmap>>}
                     /\ ~loads'[Len(loads')].ok =>
                          /\ texCall'.mipmap = 0
                          /\ textures' = textures]_vars
\* a load failed, a later load of the same key succeeded, and a third call
\* with that key was served from the cache
C30Wit ==
    /\ Len(loads) = 2 /\ ~loads[1].ok /\ loads[2].ok
    /\ loads[1].key = loads[2].key /\ loads[1].T = loads[2].T
    /\ texCall.n = 3 /\ texCall.hit /\ texCall.key = loads[2].key
    /\ texCall.mipmap = 2

(***************************************************************************)
(* LayeredBxDF::f                                                          *)
(***************************************************************************)
\* enterInterface.f(wo, wi, mode)
EntranceValues == {Gray(Zero), Gray(One)}
\* the product of the factors that multiply beta in a contribution of the
\* walk to f (phase.p, the MIS weight, Tr, betaExit, fExit): the connection
\* to wi carries nothing
NEEFactors == {Gray(Zero)}

\* the samples an interface returns for the direction wo under a mask of
\* variant: the exit interface is the top when exactly one of the two holds
ExitIsBottomInverted(o, i, top) == ~(SameHemisphere(o, i) # top)
\* if (SameHemisphere(wo, wi) ^ enteredTop) exitInterface = &bottom
ExitIsBottom(o, i, top) == SameHemisphere(o, i) # top
\* Float exitZ = (SameHemisphere(wo, wi) ^ enteredTop) ? 0 : thickness
ExitZ(o, i, top) == IF SameHemisphere(o, i) # top THEN 0 ELSE Thickness

\* variant: the test of the throughput is left out
LayerRRAppliesAlways(d, b) == d > 3
\* if (depth > 3 && beta.MaxComponentValue() < .25)
LayerRRApplies(d, b) == d > 3 /\ FLess(MaxComponentValue(b), Float(1, 4))
\* Float q = std::max<Float>(0, 1 - beta.MaxComponentValue())
LayerRRKillProb(b) == FMax(Zero, FSub(One, MaxComponentValue(b)))

InitF ==
    /\ LiIdle /\ PDFIdle /\ SampleIdle
    /\ CallsIdle /\ BxIdle /\ CompIdle /\ CreateIdle /\ ErrIdle
    /\ WorkIdle /\ TexIdle
    /\ config \in [maxDepth : {0, 2, MaxWalk},
                   nSamples : {1, MaxSamples}, twoSided : BOOLEAN]
    /\ albedo \in Albedos
    /\ specular \in [top : BOOLEAN, bottom : {FALSE}]
    /\ woZ \in {-1, 1}
    /\ wiZ \in {-1, 1}
    /\ enteredTop = TRUE
    /\ lf = [NoF EXCEPT !.pc = "begin"]

fRest == <<liVars, pdfVars, sfVars, callVars, bxVars, compVars, createVars,
           errVars, workVars, texVars>>

\* lines 753-786: flip the directions, choose the interfaces, add the
\* reflection at the entrance interface
EvalBegin ==
    /\ lf.pc = "begin"
    /\ LET o == IF Flips(config, woZ) THEN -woZ ELSE woZ
           i == IF Flips(config, woZ) THEN -wiZ ELSE wiZ
       IN  /\ woZ' = o
           /\ wiZ' = i
           /\ enteredTop' = (o > 0)
           /\ \E c \in EntranceValues :
                lf' = [lf EXCEPT
                         !.pc = "sample",
                         !.exitTop = ~ExitIsBottom(o, i, o > 0),
                         !.exitZ = ExitZ(o, i, o > 0),
                         !.f = IF SameHemisphere(o, i)
                               THEN SScale(c, Float(config.nSamples, 1))
                               ELSE Gray(Zero)]
    /\ UNCHANGED <<config, albedo, specular, fRest>>

\* lines 788-811: the loop over the samples; the two transmission samples
\* and the state of the walk
EvalSample ==
    /\ lf.pc = "sample"
    /\ lf.s < config.nSamples
    /\ \E wos \in InterfaceSamples(woZ, {"Transmission"}),
          wis \in InterfaceSamples(wiZ, {"Transmission"}) :
         /\ wis.f = Gray(One)
         /\ (~wos.valid \/ wos.wZ = 0) => wis = wos
         /\ lf' = IF ~wos.valid \/ wos.wZ = 0 \/ ~wis.valid \/ wis.wZ = 0
                  THEN [lf EXCEPT !.s = @ + 1]
                  ELSE [lf EXCEPT
                          !.pc = "walk",
                          !.beta = SDivF(SScale(wos.f, wos.cos), wos.pdf),
                          !.w = wos.wZ,
                          !.z = IF enteredTop THEN Thickness ELSE 0,
                          !.depth = 0,
                          !.lastAt = -1,
                          !.rr = NoF.rr]
    /\ UNCHANGED <<layerVars, fRest>>

\* lines 813-823: the loop test and Russian roulette
EvalWalk ==
    /\ lf.pc = "walk"
    /\ IF ~WalkGoesOn(lf.depth, config)
       THEN lf' = [lf EXCEPT !.pc = "sample", !.s = @ + 1]
       ELSE LET applies == LayerRRApplies(lf.depth, lf.beta)
                q == LayerRRKillProb(lf.beta)
            IN  \E u \in WalkUniforms :
                  /\ applies \/ u = Zero
                  /\ lf' = [lf EXCEPT
                        !.iters = @ + 1,
                        !.rr = [applied |-> applies, u |-> u, q |-> q,
                                before |-> lf.beta],
                        !.beta = IF applies /\ ~FLess(u, q)
                                 THEN SDivF(@, FSub(One, q)) ELSE @,
                        !.pc = IF applies /\ FLess(u, q) THEN "sample"
                               ELSE IF ~IsBlack(albedo) THEN "medium"
                               ELSE "advance",
                        !.s = IF applies /\ FLess(u, q) THEN @ + 1 ELSE @]
    /\ UNCHANGED <<layerVars, fRest>>

\* lines 825-873: a step through the medium between the interfaces
EvalMedium ==
    /\ lf.pc = "medium"
    /\ \E dz \in 0..(Thickness + 1), ps \in PhaseSamples,
          c1 \in NEEFactors, c2 \in NEEFactors :
         LET zp == StepTo(lf.z, lf.w, dz)
             scattered == SScale(SMul(lf.beta, albedo), FDiv(ps.p, ps.pdf))
             exitSpecular == IF lf.exitTop THEN specular.top
                             ELSE specular.bottom
         IN  /\ ~InsideSlab(zp) =>
                  (ps = [valid |-> FALSE, wZ |-> 0, p |-> One, pdf |-> One]
                     /\ c1 = Gray(Zero))
             /\ (~InsideSlab(zp) \/ InvalidLayerSample(ps) \/ exitSpecular)
                  => c2 = Gray(Zero)
             /\ lf' =
                  IF zp = lf.z
                  THEN [lf EXCEPT !.pc = "walk", !.depth = @ + 1]
                  ELSE IF InsideSlab(zp)
                  THEN IF InvalidLayerSample(ps)
                       THEN [lf EXCEPT
                               !.f = SAdd(@, SMul(SMul(lf.beta, albedo), c1)),
                               !.pc = "walk", !.depth = @ + 1]
                       ELSE [lf EXCEPT
                               !.f = SAdd(SAdd(@, SMul(SMul(lf.beta, albedo),
                                                       c1)),
                                          SMul(scattered, c2)),
                               !.beta = scattered,
                               !.w = ps.wZ,
                               !.z = zp,
                               !.pc = "walk", !.depth = @ + 1]
                  ELSE [lf EXCEPT !.z = ClampZ(zp), !.pc = "interface"]
    /\ UNCHANGED <<layerVars, fRest>>

\* lines 875-879: no medium: advance to the other interface
EvalAdvance ==
    /\ lf.pc = "advance"
    /\ \E tr \in Transmittances :
         lf' = [lf EXCEPT !.z = OtherInterface(@),
                          !.beta = SScale(@, tr),
                          !.pc = "interface"]
    /\ UNCHANGED <<layerVars, fRest>>

\* lines 880-925: reflection at the exit interface, or scattering at the
\* other interface with its two contributions to f
EvalInterface ==
    /\ lf.pc = "interface"
    /\ \E x \in InterfaceSamples(-lf.w, {"Reflection"}),
          c1 \in NEEFactors, c2 \in NEEFactors :
         LET atExit == lf.z = lf.exitZ
             exitSpecular == IF lf.exitTop THEN specular.top
                             ELSE specular.bottom
             nonExitSpecular == IF lf.exitTop THEN specular.bottom
                                ELSE specular.top
             first == IF atExit \/ nonExitSpecular THEN lf.f
                      ELSE SAdd(lf.f, SMul(lf.beta, c1))
             bounced == SDivF(SScale(SMul(lf.beta, x.f), x.cos), x.pdf)
         IN  /\ (atExit \/ nonExitSpecular) => c1 = Gray(Zero)
             /\ (atExit \/ exitSpecular \/ InvalidLayerSample(x))
                  => c2 = Gray(Zero)
             /\ lf' =
                  IF InvalidLayerSample(x) \/ (atExit /\ x.pdf = Zero)
                  THEN [lf EXCEPT !.f = first, !.lastAt = lf.z,
                                  !.pc = "sample", !.s = @ + 1]
                  ELSE [lf EXCEPT
                          !.f = SAdd(first, SMul(bounced, c2)),
                          !.beta = bounced,
                          !.w = x.wZ,
                          !.lastAt = lf.z,
                          !.pc = "walk", !.depth = @ + 1]
    /\ UNCHANGED <<layerVars, fRest>>

\* line 928: return f / config.nSamples
EvalReturn ==
    /\ lf.pc = "sample"
    /\ ~(lf.s < config.nSamples)
    /\ lf' = [lf EXCEPT !.pc = "done",
                        !.result = SDivF(lf.f, Float(config.nSamples, 1))]
    /\ UNCHANGED <<layerVars, fRest>>

NextF ==
    \/ EvalBegin
    \/ EvalSample
    \/ EvalWalk
    \/ EvalMedium
    \/ EvalAdvance
    \/ EvalInterface
    \/ EvalReturn

SpecF == InitF /\ [][NextF]_vars

\* C23, as stated: the exit interface is the top exactly when one of (wo
\* and wi in the same hemisphere, entered through the top) holds and the
\* other does not.
C23Claim ==
    lf.pc \notin {"idle", "begin"} =>
      /\ enteredTop = (woZ > 0)
      /\ lf.exitTop = (SameHemisphere(woZ, wiZ) # enteredTop)
      /\ lf.exitZ = (IF lf.exitTop THEN Thickness ELSE 0)

\* C23, amended: the entrance interface is the top when wo.z > 0 and the
\* bottom otherwise; the exit interface is the bottom exactly when one of (wo
\* and wi in the same hemisphere, entered through the top) holds and the
\* other does not, and the top otherwise; exitZ is 0 for the bottom and
\* thickness for the top.
C23Thm ==
    lf.pc \notin {"idle", "begin"} =>
      /\ enteredTop = (woZ > 0)
      /\ lf.exitTop = ~(SameHemisphere(woZ, wiZ) # enteredTop)
      /\ lf.exitZ = (IF lf.exitTop THEN Thickness ELSE 0)
\* f has returned for a one-sided composite entered from below, with wi above
C23Wit ==
    /\ lf.pc = "done" /\ ~config.twoSided /\ woZ < 0 /\ wiZ > 0
    /\ ~enteredTop /\ lf.exitTop /\ lf.exitZ = Thickness

(***************************************************************************)
(* Li and the three methods of the layered composite, each started from    *)
(* its own initial states                                                  *)
(***************************************************************************)
InitWalks == InitLi \/ InitPDF \/ InitSample \/ InitF

NextWalks ==
    \/ NextLi
    \/ NextPDF
    \/ NextSample
    \/ NextF

SpecWalks == InitWalks /\ [][NextWalks]_vars

\* C24, as stated: at every iteration with depth > 3 the walk is killed with
\* probability q = max(0, 1 - maxComponent(throughput)), and a walk that goes
\* on has its throughput divided by 1 - q (its pdf multiplied by 1 - q).
C24Claim ==
    [][/\ (lf.pc = "walk" /\ lf'.pc \in {"medium", "advance"}
             /\ lf.depth > 3)
            => lf'.beta = SDivF(lf.beta,
                                FSub(One, FMax(Zero,
                                    FSub(One, MaxComponentValue(lf.beta)))))
       /\ (sfPc = "walk" /\ sfPc' \in {"medium", "advance"}
             /\ walkDepth > 3)
            => walkPdf' = FMul(walkPdf,
                               FSub(One, FMax(Zero, FSub(One,
                                   FDiv(MaxComponentValue(walkF),
                                        walkPdf)))))]_vars

\* C24, amended: in the layered walks Russian roulette is applied at exactly
\* the iterations with depth > 3 whose throughput has its largest component
\* below 0.25; then the walk ends when the draw is below
\* q = max(0, 1 - maxComponent(throughput)) and otherwise the throughput is
\* divided by 1 - q (in Sample_f the pdf is multiplied by 1 - q); at every
\* other iteration the throughput and the pdf are left as they are.
C24Thm ==
    [][/\ (lf.pc = "walk" /\ lf.depth < config.maxDepth) =>
            LET m == MaxComponentValue(lf.beta)
                q == FMax(Zero, FSub(One, m))
                applies == lf.depth > 3 /\ FLess(m, Float(1, 4))
            IN  /\ lf'.rr.applied = applies
                /\ applies =>
                     IF FLess(lf'.rr.u, q)
                     THEN lf'.pc = "sample" /\ lf'.s = lf.s + 1
                     ELSE /\ lf'.pc \in {"medium", "advance"}
                          /\ lf'.beta = SDivF(lf.beta, FSub(One, q))
                /\ ~applies =>
                     (lf'.pc \in {"medium", "advance"}
                        /\ lf'.beta = lf.beta)
       /\ (sfPc = "walk" /\ walkDepth < config.maxDepth) =>
            LET m == FDiv(MaxComponentValue(walkF), walkPdf)
                q == FMax(Zero, FSub(One, m))
                applies == walkDepth > 3 /\ FLess(m, Float(1, 4))
            IN  /\ roulette'.applied = applies
                /\ applies =>
                     IF FLess(roulette'.u, q)
                     THEN sfPc' = "done" /\ ret' = NoRet
                     ELSE walkW # 0 =>
                            (walkPdf' = FMul(walkPdf, FSub(One, q))
                               /\ walkF' = walkF)
                /\ (~applies /\ walkW # 0) =>
                     (walkPdf' = walkPdf /\ walkF' = walkF)]_vars
\* a walk of f that went through roulette at depth 4 and survived it
C24Wit ==
    /\ lf.pc \in {"medium", "advance"} /\ lf.depth = 4
    /\ lf.rr.applied /\ FLess(Zero, lf.rr.q) /\ ~FLess(lf.rr.u, lf.rr.q)
    /\ lf.beta = Gray(One)

\* C25: f runs at most nSamples * maxDepth iterations of its walk, Sample_f
\* at most maxDepth and PDF at most nSamples iterations of its loop: the body
\* of a walk runs only with depth < maxDepth, every way back to the head of
\* the loop (a continue or the end of the body) adds one to depth, every
\* break of f and every sample of PDF adds one to s, and s stays within
\* nSamples.
C25Thm ==
    [][/\ lf'.iters <= config.nSamples * config.maxDepth
       /\ lf'.s <= config.nSamples /\ lf'.depth <= config.maxDepth
       /\ lf'.pc \in {"medium", "advance", "interface"}
            => (lf'.depth < config.maxDepth /\ lf'.s < config.nSamples)
       /\ (lf.pc = "walk" /\ lf'.pc \in {"medium", "advance"})
            => lf'.iters = lf.iters + 1
       /\ (lf.pc \in {"medium", "interface"} /\ lf'.pc = "walk")
            => (lf'.depth = lf.depth + 1 /\ lf'.s = lf.s)
       /\ (lf.pc \in {"walk", "interface"} /\ lf'.pc = "sample")
            => lf'.s = lf.s + 1
       /\ walkDepth' <= config.maxDepth
       /\ sfPc' \in {"medium", "advance", "interface"}
            => walkDepth' < config.maxDepth
       /\ (sfPc \in {"medium", "interface"} /\ sfPc' = "walk")
            => walkDepth' = walkDepth + 1
       /\ sIndex' <= config.nSamples
       /\ (pdfPc = "loop" /\ pdfPc' = "loop") => sIndex' = sIndex + 1]_vars
\* f has returned after nSamples walks of maxDepth iterations each
C25Wit ==
    /\ lf.pc = "done" /\ config.nSamples = MaxSamples
    /\ config.maxDepth = MaxWalk /\ lf.iters = MaxSamples * MaxWalk

\* C26: a path or walk that survives Russian roulette is rescaled by a
\* factor 1 - q that is strictly positive: with draws in [0, 1) a kill
\* probability q >= 1 always ends the path or walk, so in Li and in f the
\* throughput is divided by a positive number and stays finite, and in
\* Sample_f the pdf is multiplied by a positive number and stays nonzero.
C26Thm ==
    [][/\ (pc = "rr" /\ rr'.applied) =>
            LET q == RRKillProb(RRBeta(beta, etaScale))
            IN  /\ ~FLess(q, One) => pc' = "done"
                /\ pc' = "intersect" =>
                     (/\ FLess(Zero, FSub(One, q))
                      /\ \A i \in 1..Len(beta') :
                           ~IsNaN(beta'[i]) /\ ~IsInf(beta'[i]))
       /\ (lf.pc = "walk" /\ lf.depth < config.maxDepth /\ lf'.rr.applied) =>
            LET q == LayerRRKillProb(lf.beta)
            IN  /\ lf'.rr.q = q
                /\ ~FLess(q, One) => lf'.pc = "sample"
                /\ lf'.pc \in {"medium", "advance"} =>
                     (/\ FLess(Zero, FSub(One, q))
                      /\ \A i \in 1..Len(lf'.beta) :
                           ~IsNaN(lf'.beta[i]) /\ ~IsInf(lf'.beta[i]))
       /\ (sfPc = "walk" /\ walkDepth < config.maxDepth /\ roulette'.applied) =>
            LET q == WalkRRKillProb(WalkRRBeta(walkF, walkPdf))
            IN  /\ ~FLess(q, One) => sfPc' = "done"
                /\ sfPc' \in {"medium", "advance"} =>
                     (/\ FLess(Zero, FSub(One, q))
                      /\ FLess(Zero, walkPdf')
                      /\ ~IsInf(walkPdf'))]_vars
\* a walk of Sample_f that survived a roulette whose draw was not zero
C26Wit ==
    /\ sfPc \in {"medium", "advance"} /\ roulette.applied
    /\ roulette.u = Float(24, 25) /\ FLess(Zero, walkPdf)

\* C27: in the walks of f and of Sample_f the depth coordinate z stays within
\* [0, thickness]; an interface is sampled only with z = 0 (then it is the
\* bottom and the walk points down) or z = thickness (then it is the top and
\* the walk points up); and with a zero albedo the interface events
\* alternate between the two boundaries, the first one at the boundary
\* opposite the entrance: the event of iteration depth is at that boundary
\* exactly when depth is even.
C27Thm ==
    /\ lf.z \in 0..Thickness
    /\ walkZ \in 0..Thickness
    /\ lf.pc = "interface" =>
         LET sampledTop == (lf.z = lf.exitZ) = lf.exitTop
         IN  /\ lf.z \in {0, Thickness}
             /\ sampledTop = (lf.z = Thickness)
             /\ lf.z = 0 => lf.w < 0
             /\ lf.z = Thickness => lf.w > 0
             /\ IsBlack(albedo) =>
                  /\ lf.z # lf.lastAt
                  /\ lf.z = (IF (lf.depth % 2 = 0) = enteredTop
                             THEN 0 ELSE Thickness)
                  /\ (lf.lastAt = -1) = (lf.depth = 0)
    /\ sfPc = "interface" =>
         /\ walkZ \in {0, Thickness}
         /\ walkZ = 0 => walkW < 0
         /\ walkZ = Thickness => walkW > 0
         /\ IsBlack(albedo) =>
              walkZ = (IF (walkDepth % 2 = 0) = enteredTop
                       THEN 0 ELSE Thickness)
\* a walk of f without a medium about to sample its third interface event
C27Wit ==
    /\ lf.pc = "interface" /\ IsBlack(albedo)
    /\ lf.depth = 2 /\ lf.lastAt = Thickness /\ lf.z = 0

\* C28: every valid sample Sample_f of a layered composite returns carries
\* flags contained in what Flags() of that composite returns: Transmission,
\* Glossy, Specular (and Diffuse, Reflection) only if Flags() includes it.
C28Claim ==
    (composite.pc = "Sample_f" /\ composite.sample.valid)
       => composite.sample.flags \subseteq LayeredFlags(composite)

\* C29: under every interleaving of Error, Warning and ErrorExit calls the
\* comparison with lastError and its update are one atomic step: only the
\* thread that holds the mutex changes the log or lastError, and at most one
\* thread is between taking and releasing it; a message is logged if and only
\* if it differs from the message logged last (the first message always
\* is); no two consecutive entries of the log are identical; lastError is
\* the last entry logged; and with quiet set no warning is logged.
C29Claim ==
    /\ [](/\ Cardinality({t \in Threads :
                            raisers[t].pc \in {"locked", "reported"}}) <= 1
          /\ \A i \in 1..(Len(errLog) - 1) : errLog[i][2] # errLog[i + 1][2]
          /\ errLog # <<>> => lastError = errLog[Len(errLog)][2]
          /\ quiet => \A i \in 1..Len(errLog) : errLog[i][1] # "WARNING")
    /\ [][/\ (errLog' # errLog \/ lastError' # lastError)
               => \E t \in Threads :
                    /\ mutex = t /\ mutex' = t
                    /\ raisers[t].pc = "locked"
                    /\ raisers'[t].pc = "reported"
          /\ \A t \in Threads :
               (raisers[t].pc = "locked" /\ raisers'[t].pc = "reported")
                 => ((Len(errLog') = Len(errLog) + 1)
                       = (\/ errLog = <<>>
                          \/ raisers[t].msg # errLog[Len(errLog)][2]))]_vars

====
